---- MODULE Spec2Model ----
(***************************************************************************)
(* State-machine model of app/core/langgraph/graph.py (LangGraphAgent):    *)
(* the chat / tool_call graph, its MongoDB checkpoint store, the long-term *)
(* memory integration and the four public operations get_response,         *)
(* get_stream_response, get_chat_history and clear_chat_history.           *)
(*                                                                         *)
(* Library calls are modelled by what they do:                             *)
(*  - a graph compiled with a checkpointer loads the thread's latest       *)
(*    checkpoint when a run starts, writes one checkpoint for the input    *)
(*    and one after every node that completes, and keeps the task writes   *)
(*    in the checkpoint_writes collection;                                 *)
(*  - a graph compiled without a checkpointer starts every run from an     *)
(*    empty state, and get_state on it raises;                             *)
(*  - astream(stream_mode="messages") hands the consumer every chunk of    *)
(*    every model call made inside a node, and every message a node        *)
(*    returns that was not streamed (the ToolMessages of tool_call).       *)
(***************************************************************************)
EXTENDS Integers, Sequences, FiniteSets, TLC

\* ------------------------------------------------------------------ bounds

\* Turns (get_response / get_stream_response calls) started in one behaviour.
MaxTurns == 2

\* Tool rounds the model may ask for within one turn.
MaxRounds == 1

\* Operations (turns, history reads, clears) started in one behaviour.
MaxOps == 3

\* ------------------------------------------------------------- value sets

Sessions == {"s1", "s2"}

Callers == {"c1"}

UserId == "u1"

Environments == {"production", "development"}

\* tools_by_name: the registry built in __init__
ToolNames == {"search", "weather"}

\* What a registered tool returns when invoked.
ToolResult(name) == IF name = "search" THEN "hits" ELSE "sunny"

NoCalls == <<>>

\* Ordered tool-call lists a model reply may carry: ids are not positions,
\* and the last list names, between two registered tools, one that is not
\* registered.
CallLists ==
    { << [name |-> "weather", id |-> "k9"], [name |-> "search", id |-> "k2"] >>,
      << [name |-> "search", id |-> "k4"], [name |-> "nope", id |-> "k5"],
         [name |-> "weather", id |-> "k6"] >> }

\* Message(role, content) as the API schema has it.
Message(role, content) == [role |-> role, content |-> content]

\* The message lists a caller may submit (messages[-1] is the user's query).
Inputs ==
    { << Message("user", "q1") >>,
      << Message("system", "brief"), Message("user", "q2") >> }

\* Text a model reply may carry: "" is an empty content.
FinalTexts == {"", "ans"}
ToolCallTexts == {"", "hm"}

Placeholder == "No relevant memory found."

\* ----------------------------------------------------- internal messages

\* A LangChain message held in GraphState.messages.
Msg(type, content, calls, callId, name) ==
    [type |-> type, content |-> content, tool_calls |-> calls,
     tool_call_id |-> callId, name |-> name]

NoMsg == Msg("none", "", NoCalls, "", "")

\* add_messages coerces a {"role", "content"} dict to a message type.
MessageType(role) ==
    CASE role = "user" -> "human"
      [] role = "assistant" -> "ai"
      [] role = "system" -> "system"
      [] OTHER -> "tool"

\* dump_messages(messages) followed by the add_messages coercion.
DumpMessages(messages) ==
    [i \in 1..Len(messages) |->
        Msg(MessageType(messages[i].role), messages[i].content, NoCalls, "", "")]

\* The chunks in which a model reply is generated.
Tokens(content) ==
    CASE content = "ans" -> << "an", "s" >>
      [] content = "hm" -> << "h", "m" >>
      [] OTHER -> << content >>

\* ----------------------------------------------------- response assembly

\* convert_to_openai_messages: the role of each message type.
OpenAIRole(type) ==
    CASE type = "human" -> "user"
      [] type = "ai" -> "assistant"
      [] type = "system" -> "system"
      [] OTHER -> "tool"

ConvertToOpenAIMessages(messages) ==
    [i \in 1..Len(messages) |->
        [role |-> OpenAIRole(messages[i].type), content |-> messages[i].content]]

\* the filter of __process_messages
KeepMessage(m) == m.role \in {"assistant", "user"} /\ m.content # ""

\* LangGraphAgent.__process_messages
ProcessMessages(messages) ==
    LET kept == SelectSeq(ConvertToOpenAIMessages(messages), KeepMessage)
    IN [i \in 1..Len(kept) |-> Message(kept[i].role, kept[i].content)]

\* ------------------------------------------------------------------ state

VARIABLES
    env,          \* settings.ENVIRONMENT
    storeUp,      \* whether the MongoDB deployment can be reached
    graph,        \* self._graph: "none", "with_cp" or "no_cp"
    checkpointer, \* self._checkpointer is not None
    memory,       \* self.memory: 0 for None, n for the n-th client built
    checkpoints,  \* db.checkpoints: per thread_id, the snapshots in write order
    writes,       \* db.checkpoint_writes: per thread_id, the task-write records
    call,         \* per caller: the operation in progress and its locals
    tasks,        \* the background tasks created by asyncio.create_task
    turns,        \* turns started so far
    ops,          \* operations started so far
    submitted,    \* per session: the messages turns put into the state, in order
    okTurns,      \* per session: turns that returned since the last clear
    aborted,      \* per session: a turn raised since the last clear
    prev          \* what the operation completed before the latest one gave

\* The state of the HTTP layer in front of the agent.
VARIABLES
    context,      \* the logging context that bind_context fills
    sentryUser,   \* the user last given to sentry_sdk.set_user
    request       \* the request LoggingContextMiddleware.dispatch is handling

web == << context, sentryUser, request >>

agent == << env, storeUp, graph, checkpointer, memory, checkpoints, writes,
            call, tasks, turns, ops, submitted, okTurns, aborted, prev >>

vars == << context, sentryUser, request,
           env, storeUp, graph, checkpointer, memory, checkpoints, writes,
           call, tasks, turns, ops, submitted, okTurns, aborted, prev >>

\* clear_context(): the logging context with nothing bound.
EmptyContext == [user_id |-> "none", session_id |-> "none"]

NoUser == [id |-> "none", email |-> "none"]

NoRequest ==
    [n |-> 0, pc |-> "idle", header |-> <<>>, user_id |-> "none",
     seen |-> EmptyContext, outcome |-> "none", status |-> "none"]

\* The HTTP layer before the first request.
WebInit ==
    /\ context = EmptyContext
    /\ sentryUser = NoUser
    /\ request = NoRequest

EmptyValues == [messages |-> <<>>, long_term_memory |-> ""]

\* The caller record of a coroutine that is not running.
Idle ==
    [op |-> "idle", pc |-> "idle", status |-> "none", session |-> "none",
     input |-> <<>>, values |-> EmptyValues, outputs |-> <<>>,
     invoked |-> <<>>, rounds |-> 0, cur |-> NoMsg, pending |-> <<>>,
     yielded |-> <<>>, result |-> <<>>, error |-> "none",
     memOutcome |-> "none", memFailed |-> FALSE, relevant |-> "", deleted |-> << 0, 0 >>,
     before |-> <<>>, modelCalls |-> 0, client |-> 0]

Init ==
    /\ WebInit
    /\ env \in Environments
    /\ storeUp \in BOOLEAN
    /\ graph = "none"
    /\ checkpointer = FALSE
    /\ memory = 0
    /\ checkpoints = [s \in Sessions |-> <<>>]
    /\ writes = [s \in Sessions |-> <<>>]
    /\ call = [c \in Callers |-> Idle]
    /\ tasks = <<>>
    /\ turns = 0
    /\ ops = 0
    /\ submitted = [s \in Sessions |-> <<>>]
    /\ okTurns = [s \in Sessions |-> 0]
    /\ aborted = [s \in Sessions |-> FALSE]
    /\ prev = [op |-> "idle", session |-> "none", status |-> "none",
               result |-> <<>>, deleted |-> << 0, 0 >>]

\* ------------------------------------------------------- checkpoint store

\* A faulty variant of Latest: the thread's first checkpoint is read.
LatestFirst(s) ==
    IF checkpoints[s] = <<>> THEN EmptyValues ELSE checkpoints[s][1]

\* StateSnapshot.values of the thread's latest checkpoint ({} when none).
Latest(s) ==
    IF checkpoints[s] = <<>> THEN EmptyValues
    ELSE checkpoints[s][Len(checkpoints[s])]

\* A faulty variant of PutCheckpoint: nothing is ever saved.
PutCheckpointNever(s, values) == checkpoints

\* A faulty variant of PutCheckpoint: the checkpoint is saved without regard
\* to the thread id, under every session.
PutCheckpointShared(s, values) ==
    IF graph = "with_cp"
    THEN [t \in Sessions |-> Append(checkpoints[t], values)]
    ELSE checkpoints

\* The compiled graph saves a checkpoint (only when it has a checkpointer).
PutCheckpoint(s, values) ==
    IF graph = "with_cp"
    THEN [checkpoints EXCEPT ![s] = Append(@, values)]
    ELSE checkpoints

\* The compiled graph saves the writes of a finished task.
PutWrites(s, node) ==
    IF graph = "with_cp"
    THEN [writes EXCEPT ![s] = Append(@, node)]
    ELSE writes

\* ------------------------------------------------- lazily built singletons

\* A faulty variant of GetCheckpointer: a creation failure is re-raised in
\* production too.
GetCheckpointerAlwaysRaises ==
    IF checkpointer THEN [cp |-> TRUE, raised |-> FALSE]
    ELSE IF storeUp THEN [cp |-> TRUE, raised |-> FALSE]
    ELSE [cp |-> FALSE, raised |-> TRUE]

\* LangGraphAgent._get_checkpointer: what it returns (cp: not None) or that
\* it raises; self._checkpointer is set only when the saver was built.
GetCheckpointer ==
    IF checkpointer THEN [cp |-> TRUE, raised |-> FALSE]
    ELSE IF storeUp THEN [cp |-> TRUE, raised |-> FALSE]
    ELSE IF env = "production" THEN [cp |-> FALSE, raised |-> FALSE]
    ELSE [cp |-> FALSE, raised |-> TRUE]

\* LangGraphAgent.create_graph: the value of self._graph afterwards, the
\* value of self._checkpointer afterwards, and whether it raises.
CreateGraph ==
    IF graph # "none"
    THEN [graph |-> graph, cp |-> checkpointer, raised |-> FALSE]
    ELSE LET r == GetCheckpointer
         IN IF r.raised \/ (~r.cp /\ env # "production")
            THEN [graph |-> "none", cp |-> checkpointer,
                  raised |-> env # "production"]
            ELSE [graph |-> IF r.cp THEN "with_cp" ELSE "no_cp",
                  cp |-> r.cp, raised |-> FALSE]

\* ------------------------------------------------------------ bookkeeping

IsTurn(op) == op \in {"respond", "stream"}

Summary(r) ==
    [op |-> r.op, session |-> r.session, status |-> r.status,
     result |-> r.result, deleted |-> r.deleted]

\* The coroutine of caller c ends with record r (returned or raised).
Finish(c, r) ==
    LET done == [r EXCEPT !.pc = "idle"]
    IN /\ call' = [call EXCEPT ![c] = done]
       /\ UNCHANGED << prev, ops >>
       /\ okTurns' =
            IF IsTurn(r.op) /\ r.status = "returned"
            THEN [okTurns EXCEPT ![r.session] = @ + 1]
            ELSE IF r.op = "clear" /\ r.status = "returned"
            THEN [okTurns EXCEPT ![r.session] = 0]
            ELSE okTurns
       /\ aborted' =
            IF IsTurn(r.op) /\ r.status = "raised"
            THEN [aborted EXCEPT ![r.session] = TRUE]
            ELSE IF r.op = "clear" /\ r.status = "returned"
            THEN [aborted EXCEPT ![r.session] = FALSE]
            ELSE aborted

\* A faulty variant of Raised: the failure is swallowed and the coroutine
\* ends as if it had returned.
RaisedSwallowed(c, cause) ==
    [call[c] EXCEPT !.status = "returned", !.error = cause]

Raised(c, cause) == [call[c] EXCEPT !.status = "raised", !.error = cause]

Free(c) == call[c].pc = "idle"

Step(c, r) ==
    /\ call' = [call EXCEPT ![c] = r]
    /\ UNCHANGED << prev, okTurns, aborted, ops >>

\* Caller c, whose last operation is over, starts the coroutine r.
Begin(c, r) ==
    /\ call' = [call EXCEPT ![c] = r]
    /\ prev' = IF call[c].op = "idle" THEN prev ELSE Summary(call[c])
    /\ ops < MaxOps
    /\ ops' = ops + 1
    /\ UNCHANGED << okTurns, aborted >>

\* ---------------------------------------------------- starting operations

\* A caller awaits get_response (op "respond") or iterates
\* get_stream_response (op "stream") with messages for session s.
StartTurn(c, op, s, messages) ==
    /\ Free(c)
    /\ turns < MaxTurns
    /\ turns' = turns + 1
    /\ Begin(c, [Idle EXCEPT !.op = op, !.pc = "graph", !.status = "running",
                            !.session = s, !.input = messages,
                            !.before = Latest(s).messages])
    /\ UNCHANGED << web, env, storeUp, graph, checkpointer, memory, checkpoints,
                    writes, tasks, submitted >>

\* A caller awaits get_chat_history(s).
StartHistory(c, s) ==
    /\ Free(c)
    /\ Begin(c, [Idle EXCEPT !.op = "history", !.pc = "graph",
                            !.status = "running", !.session = s])
    /\ UNCHANGED << web, env, storeUp, graph, checkpointer, memory, checkpoints,
                    writes, tasks, turns, submitted >>

\* A caller awaits clear_chat_history(s).
StartClear(c, s) ==
    /\ Free(c)
    /\ Begin(c, [Idle EXCEPT !.op = "clear", !.pc = "checkpointer",
                            !.status = "running", !.session = s])
    /\ UNCHANGED << web, env, storeUp, graph, checkpointer, memory, checkpoints,
                    writes, tasks, turns, submitted >>

\* ------------------------------------------------ graph creation on demand

\* "if self._graph is None: self._graph = await self.create_graph()" at the
\* head of get_response, get_stream_response and get_chat_history.
EnsureGraph(c) ==
    /\ call[c].pc = "graph"
    /\ LET r == CreateGraph
       IN /\ graph' = r.graph
          /\ checkpointer' = r.cp
          /\ IF r.raised
             THEN Finish(c, Raised(c, "checkpointer"))
             ELSE Step(c, [call[c] EXCEPT !.pc =
                     IF call[c].op = "history" THEN "get_state" ELSE "memory"])
    /\ UNCHANGED << web, env, storeUp, memory, checkpoints, writes, tasks, turns,
                    submitted >>

\* -------------------------------------------------------- memory retrieval

\* What the memory service does during the pre-turn search.
MemoryOutcomes == {"found", "empty", "construct_fails", "search_raises",
                   "malformed"}

MemoryFailed(outcome) ==
    outcome \in {"construct_fails", "search_raises", "malformed"}

\* A faulty variant of GetRelevantMemory: a failure of the memory service
\* propagates.
GetRelevantMemoryPropagates(outcome) ==
    [text |-> IF outcome = "found" THEN "* fact" ELSE "",
     raised |-> MemoryFailed(outcome)]

\* LangGraphAgent._get_relevant_memory: the string it returns, and whether
\* it raises.
GetRelevantMemory(outcome) ==
    [text |-> IF outcome = "found" THEN "* fact" ELSE "", raised |-> FALSE]

\* (await self._get_relevant_memory(...)) or "No relevant memory found."
OrPlaceholder(text) == IF text = "" THEN Placeholder ELSE text

\* _long_term_memory with self.memory None, AsyncMemory.from_config having
\* returned: the client that is assigned to self.memory.
NewClient == memory + 1

\* The pre-turn search of get_response and get_stream_response, run with no
\* other coroutine in between.
RetrieveMemory(c) ==
    /\ call[c].pc = "memory"
    /\ \E outcome \in MemoryOutcomes :
         /\ outcome = "construct_fails" => memory = 0
         /\ memory' = IF memory = 0 /\ outcome # "construct_fails"
                       THEN NewClient ELSE memory
         /\ LET r == GetRelevantMemory(outcome)
            IN IF r.raised
               THEN Finish(c, [Raised(c, "memory") EXCEPT !.memOutcome = outcome])
               ELSE Step(c, [call[c] EXCEPT !.pc = "invoke",
                                            !.memOutcome = outcome,
                                            !.memFailed = MemoryFailed(outcome),
                                            !.relevant = OrPlaceholder(r.text)])
    /\ UNCHANGED << web, env, storeUp, graph, checkpointer, checkpoints, writes,
                    tasks, turns, submitted >>

\* ------------------------------------------------------------ the graph run

\* A faulty variant of InputState: the input replaces the stored messages.
InputStateReplaces(base, messages, relevant) ==
    [messages |-> DumpMessages(messages), long_term_memory |-> relevant]

\* The input {"messages": dump_messages(messages), "long_term_memory": ...}
\* applied to the loaded state: messages are added, the memory is replaced.
InputState(base, messages, relevant) ==
    [messages |-> base.messages \o DumpMessages(messages),
     long_term_memory |-> relevant]

\* self._graph.ainvoke / astream starts: the thread's latest checkpoint is
\* loaded, the input is applied and the input checkpoint is written.
Invoke(c) ==
    /\ call[c].pc = "invoke"
    /\ LET s == call[c].session
           base == IF graph = "with_cp" THEN Latest(s) ELSE EmptyValues
           v == InputState(base, call[c].input, call[c].relevant)
       IN IF graph = "none"
          THEN /\ Finish(c, Raised(c, "no_graph"))
               /\ UNCHANGED << checkpoints, submitted >>
          ELSE /\ Step(c, [call[c] EXCEPT !.pc = "chat", !.values = v,
                                          !.memOutcome = "none"])
               /\ checkpoints' = PutCheckpoint(s, v)
               /\ submitted' = [submitted EXCEPT
                                  ![s] = @ \o DumpMessages(call[c].input)]
    /\ UNCHANGED << web, env, storeUp, graph, checkpointer, memory, writes, tasks,
                    turns >>

\* What llm_service.call may return in this chat step.
ModelReplies(c) ==
    { Msg("ai", text, NoCalls, "", "") : text \in FinalTexts }
    \cup
    IF call[c].rounds < MaxRounds
    THEN { Msg("ai", src[1], src[2], "", "") : src \in ToolCallTexts \X CallLists }
    ELSE {}

\* A faulty variant of Goto: the chat step always ends the run.
GotoAlwaysEnd(message) == "end"

\* _chat: "if response_message.tool_calls: goto = 'tool_call' else END"
Goto(message) == IF message.tool_calls # NoCalls THEN "tool_call" ELSE "end"

\* A faulty variant of ChatDone: the step's message is merged into whatever
\* the session has stored by now, not into the state the run holds.
ChatDoneMerges(c, message) ==
    LET s == call[c].session
        v == [call[c].values EXCEPT
                !.messages = IF graph = "with_cp"
                             THEN Append(Latest(s).messages, message)
                             ELSE Append(@, message)]
    IN /\ Step(c, [call[c] EXCEPT !.pc = Goto(message), !.values = v,
                                  !.cur = NoMsg, !.pending = <<>>,
                                  !.invoked = IF Goto(message) = "tool_call"
                                              THEN <<>> ELSE @,
                                  !.modelCalls =
                                     IF call[c].op = "respond" THEN @ + 1 ELSE @])
       /\ checkpoints' = PutCheckpoint(s, v)
       /\ writes' = PutWrites(s, "chat")
       /\ submitted' = [submitted EXCEPT ![s] = Append(@, message)]

\* The node chat returned Command(update={"messages": [message]}, goto):
\* the update is applied, the task writes and the checkpoint are saved.
ChatDone(c, message) ==
    LET s == call[c].session
        v == [call[c].values EXCEPT !.messages = Append(@, message)]
    IN /\ Step(c, [call[c] EXCEPT !.pc = Goto(message), !.values = v,
                                  !.cur = NoMsg, !.pending = <<>>,
                                  !.invoked = IF Goto(message) = "tool_call"
                                              THEN <<>> ELSE @,
                                  !.modelCalls =
                                     IF call[c].op = "respond" THEN @ + 1 ELSE @])
       /\ checkpoints' = PutCheckpoint(s, v)
       /\ writes' = PutWrites(s, "chat")
       /\ submitted' = [submitted EXCEPT ![s] = Append(@, message)]

\* _chat under ainvoke: the model call returns a message.
Chat(c) ==
    /\ call[c].pc = "chat"
    /\ call[c].op = "respond"
    /\ \E message \in ModelReplies(c) : ChatDone(c, message)
    /\ UNCHANGED << web, env, storeUp, graph, checkpointer, memory, tasks, turns >>

\* _chat: the model call raises; the node raises the wrapped exception, which
\* ends the run and leaves get_response / get_stream_response through their
\* except clause.
ChatFails(c) ==
    /\ \/ call[c].pc = "chat"
       \/ call[c].pc = "emit" /\ call[c].cur # NoMsg
    /\ Finish(c, [Raised(c, "llm") EXCEPT !.modelCalls =
                     IF call[c].pc = "chat" THEN @ + 1 ELSE @])
    /\ UNCHANGED << web, env, storeUp, graph, checkpointer, memory, checkpoints,
                    writes, tasks, turns, submitted >>

\* ------------------------------------------------------------- tool_call

\* A faulty variant of ToolMessage: the tool-call identifier is left out.
ToolMessageWithoutId(content, name, callId) ==
    Msg("tool", content, NoCalls, "", name)

\* ToolMessage(content=tool_result, name=..., tool_call_id=...)
ToolMessage(content, name, callId) == Msg("tool", content, NoCalls, callId, name)

\* state.messages[-1].tool_calls
PendingCalls(c) ==
    call[c].values.messages[Len(call[c].values.messages)].tool_calls

\* A faulty variant of NextCall: the calls are taken from the last one.
NextCallFromEnd(calls, outputs) == calls[Len(calls) - Len(outputs)]

\* The tool call the for loop of _tool_call is at.
NextCall(calls, outputs) == calls[Len(outputs) + 1]

\* A faulty variant of ToolInvoke: a call of an unknown tool is answered with
\* an empty result.
ToolInvokeSkipsUnknown(c) ==
    /\ call[c].pc = "tool_call"
    /\ Len(call[c].outputs) < Len(PendingCalls(c))
    /\ LET tc == NextCall(PendingCalls(c), call[c].outputs)
       IN Step(c, [call[c] EXCEPT
             !.invoked = IF tc.name \in ToolNames THEN Append(@, tc.id) ELSE @,
             !.outputs = Append(@, ToolMessage(
                            IF tc.name \in ToolNames THEN ToolResult(tc.name)
                            ELSE "", tc.name, tc.id))])
    /\ UNCHANGED << web, env, storeUp, graph, checkpointer, memory, checkpoints,
                    writes, tasks, turns, submitted >>

\* One iteration of the loop of _tool_call: the tool is looked up by name
\* (KeyError when absent), awaited, and its ToolMessage appended to outputs.
ToolInvoke(c) ==
    /\ call[c].pc = "tool_call"
    /\ Len(call[c].outputs) < Len(PendingCalls(c))
    /\ LET tc == NextCall(PendingCalls(c), call[c].outputs)
       IN IF tc.name \notin ToolNames
          THEN Finish(c, Raised(c, "unknown_tool"))
          ELSE Step(c, [call[c] EXCEPT
                  !.invoked = Append(@, tc.id),
                  !.outputs = Append(@, ToolMessage(ToolResult(tc.name),
                                                    tc.name, tc.id))])
    /\ UNCHANGED << web, env, storeUp, graph, checkpointer, memory, checkpoints,
                    writes, tasks, turns, submitted >>

\* The awaited tool raises: the exception leaves _tool_call and the run.
ToolRaises(c) ==
    /\ call[c].pc = "tool_call"
    /\ Len(call[c].outputs) < Len(PendingCalls(c))
    /\ NextCall(PendingCalls(c), call[c].outputs).name \in ToolNames
    /\ Finish(c, [Raised(c, "tool_error") EXCEPT !.invoked =
                     Append(@, NextCall(PendingCalls(c), call[c].outputs).id)])
    /\ UNCHANGED << web, env, storeUp, graph, checkpointer, memory, checkpoints,
                    writes, tasks, turns, submitted >>

\* The fragments astream hands over for the messages a node returned.
MessageItems(messages, origin) ==
    [i \in 1..Len(messages) |-> [text |-> messages[i].content, origin |-> origin]]

\* What a streamed run hands over when tool_call returns its Command: the
\* returned ToolMessages, or nothing, depending on whether the installed
\* langgraph looks for messages inside a Command's update.
ReturnedItems(c) ==
    IF call[c].op = "stream"
    THEN { MessageItems(call[c].outputs, "tool"), <<>> }
    ELSE { <<>> }

\* The loop of _tool_call is over: Command(update={"messages": outputs},
\* goto="chat") is applied, the task writes and the checkpoint are saved; a
\* streamed run hands the returned ToolMessages to the consumer.
ToolDone(c) ==
    /\ call[c].pc = "tool_call"
    /\ Len(call[c].outputs) = Len(PendingCalls(c))
    /\ LET s == call[c].session
           v == [call[c].values EXCEPT !.messages = @ \o call[c].outputs]
       IN /\ \E items \in ReturnedItems(c) :
                Step(c, [call[c] EXCEPT
                   !.pc = IF call[c].op = "stream" THEN "emit" ELSE "chat",
                   !.pending = items,
                   !.values = v, !.outputs = <<>>, !.rounds = @ + 1])
          /\ checkpoints' = PutCheckpoint(s, v)
          /\ writes' = PutWrites(s, "tool_call")
          /\ submitted' = [submitted EXCEPT ![s] = @ \o call[c].outputs]
    /\ UNCHANGED << web, env, storeUp, graph, checkpointer, memory, tasks, turns >>

\* -------------------------------------------------------------- streaming

\* The chunks of one model reply, as astream(stream_mode="messages") hands
\* them over while the node chat is still running.
ChunkItems(message) ==
    LET toks == Tokens(message.content)
    IN [i \in 1..Len(toks) |->
          [text |-> toks[i],
           origin |-> IF message.tool_calls # NoCalls THEN "tool_call_ai"
                      ELSE "final"]]

\* _chat under astream: the model call starts generating a message.
StreamChat(c) ==
    /\ call[c].pc = "chat"
    /\ call[c].op = "stream"
    /\ \E message \in ModelReplies(c) :
         Step(c, [call[c] EXCEPT !.pc = "emit", !.cur = message,
                                 !.pending = ChunkItems(message),
                                 !.modelCalls = @ + 1])
    /\ UNCHANGED << web, env, storeUp, graph, checkpointer, memory, checkpoints,
                    writes, tasks, turns, submitted >>

\* "async for token, _ in ...: yield token.content": whether the generator
\* yields a fragment for this item of the stream.
Yields(item) == TRUE

\* The generator takes the next item of the stream and yields its content.
Emit(c) ==
    /\ call[c].pc = "emit"
    /\ call[c].pending # <<>>
    /\ Step(c, [call[c] EXCEPT
            !.pending = Tail(@),
            !.yielded = IF Yields(Head(call[c].pending))
                        THEN Append(@, Head(call[c].pending)) ELSE @])
    /\ UNCHANGED << web, env, storeUp, graph, checkpointer, memory, checkpoints,
                    writes, tasks, turns, submitted >>

\* A faulty variant of EmitFails: the failure of one token ends the stream.
EmitFailsAborts(c) ==
    /\ call[c].pc = "emit"
    /\ call[c].pending # <<>>
    /\ Finish(c, Raised(c, "token"))
    /\ UNCHANGED << web, env, storeUp, graph, checkpointer, memory, checkpoints,
                    writes, tasks, turns, submitted >>

\* "try: yield token.content / except Exception: ... continue": reading the
\* item raises, the except clause logs it and the loop takes the next item;
\* nothing is yielded for this one.
EmitFails(c) ==
    /\ call[c].pc = "emit"
    /\ call[c].pending # <<>>
    /\ Step(c, [call[c] EXCEPT !.pending = Tail(@)])
    /\ UNCHANGED << web, env, storeUp, graph, checkpointer, memory, checkpoints,
                    writes, tasks, turns, submitted >>

\* All chunks of the reply were handed over: the node chat returns.
StreamChatDone(c) ==
    /\ call[c].pc = "emit"
    /\ call[c].pending = <<>>
    /\ call[c].cur # NoMsg
    /\ ChatDone(c, call[c].cur)
    /\ UNCHANGED << web, env, storeUp, graph, checkpointer, memory, tasks, turns >>

\* All ToolMessages of the round were handed over: the run goes on to chat.
StreamToolDone(c) ==
    /\ call[c].pc = "emit"
    /\ call[c].pending = <<>>
    /\ call[c].cur = NoMsg
    /\ Step(c, [call[c] EXCEPT !.pc = "chat"])
    /\ UNCHANGED << web, env, storeUp, graph, checkpointer, memory, checkpoints,
                    writes, tasks, turns, submitted >>

\* ------------------------------------------------------ the end of a turn

Metadata(s) ==
    [user_id |-> UserId, session_id |-> s, environment |-> env]

\* A faulty variant of Task: the last message of the turn is missing.
TaskPartial(messages, metadata) ==
    [user_id |-> UserId, messages |-> SubSeq(messages, 1, Len(messages) - 1),
     metadata |-> metadata, state |-> "scheduled", adds |-> 0, client |-> 0]

\* asyncio.create_task(self._update_long_term_memory(user_id, messages,
\* metadata)): the task as scheduled.
Task(messages, metadata) ==
    [user_id |-> UserId, messages |-> messages, metadata |-> metadata,
     state |-> "scheduled", adds |-> 0, client |-> 0]

\* get_response after ainvoke returned: the memory update is scheduled and
\* the processed messages of the final state are returned.
Respond(c) ==
    /\ call[c].pc = "end"
    /\ call[c].op = "respond"
    /\ LET s == call[c].session
           messages == call[c].values.messages
       IN /\ tasks' = Append(tasks, Task(ConvertToOpenAIMessages(messages),
                                         Metadata(s)))
          /\ Finish(c, [call[c] EXCEPT !.status = "returned",
                                       !.result = ProcessMessages(messages)])
    /\ UNCHANGED << web, env, storeUp, graph, checkpointer, memory, checkpoints,
                    writes, turns, submitted >>

\* get_stream_response after the stream is exhausted: the state is read back
\* with get_state (which raises on a graph without checkpointer) and the
\* memory update is scheduled.
StreamEnd(c) ==
    /\ call[c].pc = "end"
    /\ call[c].op = "stream"
    /\ LET s == call[c].session
       IN IF graph # "with_cp"
          THEN /\ Finish(c, Raised(c, "no_checkpointer"))
               /\ UNCHANGED tasks
          ELSE /\ tasks' =
                    IF checkpoints[s] # <<>>
                    THEN Append(tasks,
                                Task(ConvertToOpenAIMessages(Latest(s).messages),
                                     Metadata(s)))
                    ELSE tasks
               /\ Finish(c, [call[c] EXCEPT !.status = "returned"])
    /\ UNCHANGED << web, env, storeUp, graph, checkpointer, memory, checkpoints,
                    writes, turns, submitted >>

\* ------------------------------------------- background memory updates

\* A scheduled _update_long_term_memory task starts to run and enters
\* _long_term_memory: with self.memory set it has its client, with
\* self.memory None it awaits AsyncMemory.from_config.
UpdateBegin(i) ==
    /\ i \in 1..Len(tasks)
    /\ tasks[i].state = "scheduled"
    /\ tasks' = [tasks EXCEPT
                   ![i].state = IF memory = 0 THEN "constructing" ELSE "adding",
                   ![i].client = memory]
    /\ UNCHANGED << web, env, storeUp, graph, checkpointer, memory, checkpoints,
                    writes, call, turns, ops, submitted, okTurns, aborted, prev >>

\* AsyncMemory.from_config returns to the task, which assigns self.memory, or
\* it raises, which the except of _update_long_term_memory logs.
UpdateConstructed(i) ==
    /\ i \in 1..Len(tasks)
    /\ tasks[i].state = "constructing"
    /\ \/ /\ memory' = NewClient
          /\ tasks' = [tasks EXCEPT ![i].state = "adding",
                                    ![i].client = NewClient]
       \/ /\ tasks' = [tasks EXCEPT ![i].state = "failed"]
          /\ UNCHANGED memory
    /\ UNCHANGED << web, env, storeUp, graph, checkpointer, checkpoints, writes,
                    call, turns, ops, submitted, okTurns, aborted, prev >>

\* A faulty variant of UpdateLongTermMemory: after a failed memory.add the
\* task is run again.
UpdateLongTermMemoryRetries(i) ==
    /\ i \in 1..Len(tasks)
    /\ tasks[i].state = "adding"
    /\ \E outcome \in {"done", "scheduled"} :
         tasks' = [tasks EXCEPT ![i].state = outcome, ![i].adds = @ + 1]
    /\ UNCHANGED << web, env, storeUp, graph, checkpointer, memory, checkpoints,
                    writes, call, turns, ops, submitted, okTurns, aborted, prev >>

\* "await memory.add(...)" returns or raises; either way the task is over,
\* a failure is only logged.
UpdateLongTermMemory(i) ==
    /\ i \in 1..Len(tasks)
    /\ tasks[i].state = "adding"
    /\ \E outcome \in {"done", "failed"} :
         tasks' = [tasks EXCEPT ![i].state = outcome, ![i].adds = @ + 1]
    /\ UNCHANGED << web, env, storeUp, graph, checkpointer, memory, checkpoints,
                    writes, call, turns, ops, submitted, okTurns, aborted, prev >>

\* ------------------------------------- memory retrieval, await by await

\* _get_relevant_memory enters _long_term_memory: with self.memory set the
\* caller has its client, with self.memory None it awaits from_config.
SearchBegin(c) ==
    /\ call[c].pc = "memory"
    /\ Step(c, [call[c] EXCEPT
            !.pc = IF memory = 0 THEN "constructing" ELSE "search",
            !.client = memory])
    /\ UNCHANGED << web, env, storeUp, graph, checkpointer, memory, checkpoints,
                    writes, tasks, turns, submitted >>

\* AsyncMemory.from_config returns to the caller, which assigns self.memory,
\* or it raises and _get_relevant_memory returns "".
SearchConstructed(c) ==
    /\ call[c].pc = "constructing"
    /\ \/ /\ memory' = NewClient
          /\ Step(c, [call[c] EXCEPT !.pc = "search", !.client = NewClient])
       \/ /\ UNCHANGED memory
          /\ Step(c, [call[c] EXCEPT
                  !.pc = "invoke", !.memOutcome = "construct_fails",
                  !.memFailed = TRUE,
                  !.relevant =
                     OrPlaceholder(GetRelevantMemory("construct_fails").text)])
    /\ UNCHANGED << web, env, storeUp, graph, checkpointer, checkpoints, writes,
                    tasks, turns, submitted >>

\* "await memory.search(...)" and the formatting of its result.
SearchDone(c) ==
    /\ call[c].pc = "search"
    /\ \E outcome \in MemoryOutcomes \ {"construct_fails"} :
         Step(c, [call[c] EXCEPT
            !.pc = "invoke", !.memOutcome = outcome,
            !.memFailed = MemoryFailed(outcome),
            !.relevant = OrPlaceholder(GetRelevantMemory(outcome).text)])
    /\ UNCHANGED << web, env, storeUp, graph, checkpointer, memory, checkpoints,
                    writes, tasks, turns, submitted >>

\* ------------------------------------------------------- get_chat_history

\* get_chat_history after the graph exists: get_state of the thread, then
\* the processed messages of its values, or [] when it has none.
GetChatHistory(c) ==
    /\ call[c].pc = "get_state"
    /\ LET s == call[c].session
       IN IF graph # "with_cp"
          THEN Finish(c, Raised(c, "no_checkpointer"))
          ELSE Finish(c, [call[c] EXCEPT
                  !.status = "returned",
                  !.result = IF checkpoints[s] # <<>>
                             THEN ProcessMessages(Latest(s).messages)
                             ELSE <<>>])
    /\ UNCHANGED << web, env, storeUp, graph, checkpointer, memory, checkpoints,
                    writes, tasks, turns, submitted >>

\* ----------------------------------------------------- clear_chat_history

\* A faulty variant of ClearRaises: a checkpointer of None is accepted.
ClearRaisesOnlyOnError(r) == r.raised

\* clear_chat_history leaves through its except clause when
\* _get_checkpointer raised or returned None.
ClearRaises(r) == r.raised \/ ~r.cp

\* A faulty variant of DeleteMany: no record is removed.
DeleteManyNothing(collection, s) == collection

\* A faulty variant of DeleteMany: the filter is ignored and the records of
\* every session are removed.
DeleteManyAll(collection, s) == [t \in Sessions |-> <<>>]

\* collection.delete_many({"thread_id": s}): the collection afterwards.
DeleteMany(collection, s) == [collection EXCEPT ![s] = <<>>]

\* clear_chat_history: "checkpointer = await self._get_checkpointer()".
ClearGetCheckpointer(c) ==
    /\ call[c].pc = "checkpointer"
    /\ LET r == GetCheckpointer
       IN /\ checkpointer' = r.cp
          /\ IF ClearRaises(r)
             THEN Finish(c, Raised(c, "checkpointer"))
             ELSE Step(c, [call[c] EXCEPT !.pc = "delete_checkpoints"])
    /\ UNCHANGED << web, env, storeUp, graph, memory, checkpoints, writes, tasks,
                    turns, submitted >>

\* db.checkpoints.delete_many({"thread_id": session_id})
DeleteCheckpoints(c) ==
    /\ call[c].pc = "delete_checkpoints"
    /\ LET s == call[c].session
       IN /\ checkpoints' = DeleteMany(checkpoints, s)
          /\ submitted' = [submitted EXCEPT ![s] = <<>>]
          /\ Step(c, [call[c] EXCEPT !.pc = "delete_writes",
                                     !.deleted[1] = Len(checkpoints[s])])
    /\ UNCHANGED << web, env, storeUp, graph, checkpointer, memory, writes, tasks,
                    turns >>

\* db.checkpoint_writes.delete_many({"thread_id": session_id}), the log line
\* with both deleted counts, and the return.
DeleteWrites(c) ==
    /\ call[c].pc = "delete_writes"
    /\ LET s == call[c].session
       IN /\ writes' = DeleteMany(writes, s)
          /\ Finish(c, [call[c] EXCEPT !.status = "returned",
                                       !.deleted[2] = Len(writes[s])])
    /\ UNCHANGED << web, env, storeUp, graph, checkpointer, memory, checkpoints,
                    tasks, turns, submitted >>

\* ------------------------------------------------------------ specification

\* Single-shot turns, history reads and clears of one caller at a time.
Next ==
    \/ \E c \in Callers, s \in Sessions, messages \in Inputs :
          StartTurn(c, "respond", s, messages)
    \/ \E c \in Callers, s \in Sessions : StartHistory(c, s)
    \/ \E c \in Callers, s \in Sessions : StartClear(c, s)
    \/ \E c \in Callers :
          \/ EnsureGraph(c)
          \/ RetrieveMemory(c)
          \/ Invoke(c)
          \/ Chat(c)
          \/ ChatFails(c)
          \/ ToolInvoke(c)
          \/ ToolRaises(c)
          \/ ToolDone(c)
          \/ Respond(c)
          \/ GetChatHistory(c)
          \/ ClearGetCheckpointer(c)
          \/ DeleteCheckpoints(c)
          \/ DeleteWrites(c)

Spec == Init /\ [][Next]_vars

\* Streamed turns of one caller at a time.
NextStream ==
    \/ \E c \in Callers, s \in Sessions, messages \in Inputs :
          StartTurn(c, "stream", s, messages)
    \/ \E c \in Callers :
          \/ EnsureGraph(c)
          \/ RetrieveMemory(c)
          \/ Invoke(c)
          \/ StreamChat(c)
          \/ ChatFails(c)
          \/ ToolInvoke(c)
          \/ ToolRaises(c)
          \/ ToolDone(c)
          \/ Emit(c)
          \/ StreamChatDone(c)
          \/ StreamToolDone(c)
          \/ StreamEnd(c)

SpecStream == Init /\ [][NextStream]_vars

\* Streamed turns of one caller in which the processing of any token may
\* fail.
NextTokens ==
    \E c \in Callers :
        \/ StartTurn(c, "stream", "s1", << Message("user", "q1") >>)
        \/ EnsureGraph(c)
        \/ RetrieveMemory(c)
        \/ Invoke(c)
        \/ StreamChat(c)
        \/ ChatFails(c)
        \/ ToolInvoke(c)
        \/ ToolRaises(c)
        \/ ToolDone(c)
        \/ Emit(c)
        \/ EmitFails(c)
        \/ StreamChatDone(c)
        \/ StreamToolDone(c)
        \/ StreamEnd(c)

SpecTokens == Init /\ [][NextTokens]_vars

\* Single-shot and streamed turns of one caller at a time, in any mix.
NextBoth ==
    \/ NextStream
    \/ \E c \in Callers, s \in Sessions, messages \in Inputs :
          StartTurn(c, "respond", s, messages)
    \/ \E c \in Callers : Chat(c) \/ Respond(c)

SpecBoth == Init /\ [][NextBoth]_vars

\* The session and the input used where operations interleave.
SharedSession == "s1"
SharedInput == << Message("user", "q1") >>

\* ------------------------------------------------- the length of a run

\* The super-steps a run may take: ainvoke gets a config without
\* "recursion_limit", so the compiled graph applies its default.
RecursionLimit == 25

\* A model that may ask for the same tools at every chat step, without end.
LoopReplies ==
    { Msg("ai", "ans", NoCalls, "", ""),
      Msg("ai", "", << [name |-> "weather", id |-> "k9"],
                       [name |-> "search", id |-> "k2"] >>, "", "") }

\* A faulty variant of OutOfSteps: the run has no limit.
OutOfStepsNever(c) == FALSE

\* The chat step that is running is the last super-step the run may take
\* (each completed tool round took two: chat and tool_call).
OutOfSteps(c) == 2 * call[c].rounds + 1 >= RecursionLimit

\* _chat under ainvoke with a model that is free to ask for tools every
\* time: when the step wants to go on to tool_call and the run is out of
\* steps, its update is saved and the run raises GraphRecursionError.
ChatLoop(c) ==
    /\ call[c].pc = "chat"
    /\ call[c].op = "respond"
    /\ \E message \in LoopReplies :
         IF Goto(message) = "tool_call" /\ OutOfSteps(c)
         THEN LET s == call[c].session
                  v == [call[c].values EXCEPT !.messages = Append(@, message)]
              IN /\ Finish(c, [Raised(c, "recursion") EXCEPT
                                  !.values = v, !.modelCalls = @ + 1])
                 /\ checkpoints' = PutCheckpoint(s, v)
                 /\ writes' = PutWrites(s, "chat")
                 /\ submitted' = [submitted EXCEPT ![s] = Append(@, message)]
         ELSE ChatDone(c, message)
    /\ UNCHANGED << web, env, storeUp, graph, checkpointer, memory, tasks, turns >>

\* Single-shot turns whose model and tools always return.
NextLoop ==
    \/ \E c \in Callers : StartTurn(c, "respond", SharedSession, SharedInput)
    \/ \E c \in Callers :
          \/ EnsureGraph(c)
          \/ RetrieveMemory(c)
          \/ Invoke(c)
          \/ ChatLoop(c)
          \/ ToolInvoke(c)
          \/ ToolDone(c)
          \/ Respond(c)

\* The steps of a turn in progress: the event loop resumes the coroutine
\* whenever the call it awaits has returned.
RunStep ==
    \E c \in Callers :
        \/ EnsureGraph(c)
        \/ RetrieveMemory(c)
        \/ Invoke(c)
        \/ ChatLoop(c)
        \/ ToolInvoke(c)
        \/ ToolDone(c)
        \/ Respond(c)

SpecLoop == Init /\ [][NextLoop]_vars /\ WF_vars(RunStep)

\* ------------------------------------------ background tasks running

\* Single-shot turns, history reads and clears of one caller, and the
\* background memory updates running in between at the await points.
NextTasks ==
    \/ \E c \in Callers :
          \/ StartTurn(c, "respond", SharedSession, SharedInput)
          \/ StartHistory(c, SharedSession)
          \/ StartClear(c, SharedSession)
          \/ EnsureGraph(c)
          \/ SearchBegin(c)
          \/ SearchConstructed(c)
          \/ SearchDone(c)
          \/ Invoke(c)
          \/ Chat(c)
          \/ ChatFails(c)
          \/ ToolInvoke(c)
          \/ ToolRaises(c)
          \/ ToolDone(c)
          \/ Respond(c)
          \/ GetChatHistory(c)
          \/ ClearGetCheckpointer(c)
          \/ DeleteCheckpoints(c)
          \/ DeleteWrites(c)
    \/ \E i \in 1..MaxTurns :
          \/ UpdateBegin(i)
          \/ UpdateConstructed(i)
          \/ UpdateLongTermMemory(i)

SpecTasks == Init /\ [][NextTasks]_vars

\* --------------------------------------------- concurrent coroutines

\* The callers whose operations run concurrently on the event loop.
Coroutines == {"c1", "c2"}

InitConcurrent ==
    /\ WebInit
    /\ env \in Environments
    /\ storeUp \in BOOLEAN
    /\ graph = "none"
    /\ checkpointer = FALSE
    /\ memory = 0
    /\ checkpoints = [s \in Sessions |-> <<>>]
    /\ writes = [s \in Sessions |-> <<>>]
    /\ call = [c \in Coroutines |-> Idle]
    /\ tasks = <<>>
    /\ turns = 0
    /\ ops = 0
    /\ submitted = [s \in Sessions |-> <<>>]
    /\ okTurns = [s \in Sessions |-> 0]
    /\ aborted = [s \in Sessions |-> FALSE]
    /\ prev = [op |-> "idle", session |-> "none", status |-> "none",
               result |-> <<>>, deleted |-> << 0, 0 >>]

\* _chat where the model answers at once, without tool calls.
ChatAnswers(c) ==
    /\ call[c].pc = "chat"
    /\ call[c].op = "respond"
    /\ ChatDone(c, Msg("ai", "ans", NoCalls, "", ""))
    /\ UNCHANGED << web, env, storeUp, graph, checkpointer, memory, tasks, turns >>

\* Turns, history reads and clears of two callers and the background memory
\* updates, interleaved at their await points.
NextConcurrent ==
    \/ \E c \in Coroutines :
          \/ StartTurn(c, "respond", SharedSession, SharedInput)
          \/ StartHistory(c, SharedSession)
          \/ StartClear(c, SharedSession)
          \/ EnsureGraph(c)
          \/ SearchBegin(c)
          \/ SearchConstructed(c)
          \/ SearchDone(c)
          \/ Invoke(c)
          \/ ChatAnswers(c)
          \/ Respond(c)
          \/ GetChatHistory(c)
          \/ ClearGetCheckpointer(c)
          \/ DeleteCheckpoints(c)
          \/ DeleteWrites(c)
    \/ \E i \in 1..MaxTurns :
          \/ UpdateBegin(i)
          \/ UpdateConstructed(i)
          \/ UpdateLongTermMemory(i)

SpecConcurrent == InitConcurrent /\ [][NextConcurrent]_vars

\* ------------------------------------------- turns on two sessions

\* The session each concurrent caller works on, and what it submits.
SessionOf(c) == IF c = "c1" THEN "s1" ELSE "s2"
InputOf(c) ==
    IF c = "c1" THEN << Message("user", "q1") >>
    ELSE << Message("system", "brief"), Message("user", "q2") >>

\* Two callers, each running single-shot turns on a session of its own,
\* interleaved at the await points of get_response and of the graph run.
NextSessions ==
    \E c \in Coroutines :
        \/ StartTurn(c, "respond", SessionOf(c), InputOf(c))
        \/ EnsureGraph(c)
        \/ RetrieveMemory(c)
        \/ Invoke(c)
        \/ Chat(c)
        \/ ChatFails(c)
        \/ ToolInvoke(c)
        \/ ToolRaises(c)
        \/ ToolDone(c)
        \/ Respond(c)

SpecSessions == InitConcurrent /\ [][NextSessions]_vars

\* --------------------------------------------- turns on one session

\* Two callers running single-shot turns on the same session, interleaved
\* at the await points: nothing in get_response waits for the other turn.
NextSameSession ==
    \E c \in Coroutines :
        \/ StartTurn(c, "respond", SharedSession, InputOf(c))
        \/ EnsureGraph(c)
        \/ RetrieveMemory(c)
        \/ Invoke(c)
        \/ Chat(c)
        \/ ChatFails(c)
        \/ ToolInvoke(c)
        \/ ToolRaises(c)
        \/ ToolDone(c)
        \/ Respond(c)

SpecSameSession == InitConcurrent /\ [][NextSameSession]_vars

\* ------------------------------- response assembly on structured content

\* The longest message sequence handed to the response assembler.
MaxLen == 2

\* A message content: a string, or a list of content blocks.
Text(t) == [kind |-> "str", text |-> t, blocks |-> <<>>]
Blocks(b) == [kind |-> "blocks", text |-> "", blocks |-> b]

TextBlock(t) == [type |-> "text", text |-> t]
ImageBlock == [type |-> "image_url", text |-> ""]

Contents ==
    { Text(""), Text("hi"),
      Blocks(<<>>),
      Blocks(<< TextBlock("a"), TextBlock("b") >>),
      Blocks(<< TextBlock("a"), ImageBlock >>) }

MessageTypes == {"human", "ai", "system", "tool"}

StructuredMessages ==
    { [type |-> t, content |-> c] : t \in MessageTypes, c \in Contents }

\* The message sequences of length at most n.
SeqsUpTo(n) == UNION { [1..k -> StructuredMessages] : k \in 0..n }

\* The texts of a list of text blocks joined by newlines.
RECURSIVE JoinLines(_)
JoinLines(blocks) ==
    IF blocks = <<>> THEN ""
    ELSE IF Len(blocks) = 1 THEN blocks[1].text
    ELSE blocks[1].text \o "\n" \o JoinLines(Tail(blocks))

\* convert_to_openai_messages with its default text_format "string": a
\* string content is left as it is, blocks that are all text blocks are
\* joined by newlines into one string, other block lists are left as lists.
FormatContent(content) ==
    IF content.kind = "str" THEN content
    ELSE IF \A i \in 1..Len(content.blocks) : content.blocks[i].type = "text"
    THEN Text(JoinLines(content.blocks))
    ELSE content

\* The truth value Python gives message["content"].
Truthy(content) ==
    IF content.kind = "str" THEN content.text # "" ELSE content.blocks # <<>>

\* The repr of one content block and of a list of blocks.
BlockRepr(block) ==
    IF block.type = "text"
    THEN "{'type': 'text', 'text': '" \o block.text \o "'}"
    ELSE "{'type': 'image_url'}"

RECURSIVE ListRepr(_)
ListRepr(blocks) ==
    IF blocks = <<>> THEN ""
    ELSE IF Len(blocks) = 1 THEN BlockRepr(blocks[1])
    ELSE BlockRepr(blocks[1]) \o ", " \o ListRepr(Tail(blocks))

\* str(message["content"]): a string is itself, a list is its repr.
PyStr(content) ==
    IF content.kind = "str" THEN content.text
    ELSE "[" \o ListRepr(content.blocks) \o "]"

\* convert_to_openai_messages on messages with structured content.
ConvertStructured(messages) ==
    [i \in 1..Len(messages) |->
        [role |-> OpenAIRole(messages[i].type),
         content |-> FormatContent(messages[i].content)]]

\* A faulty variant of KeepStructured: the content is not looked at.
KeepStructuredAnyContent(m) == m.role \in {"assistant", "user"}

\* the filter of __process_messages on a converted message
KeepStructured(m) == m.role \in {"assistant", "user"} /\ Truthy(m.content)

\* LangGraphAgent.__process_messages on messages with structured content.
ProcessStructured(messages) ==
    LET kept == SelectSeq(ConvertStructured(messages), KeepStructured)
    IN [i \in 1..Len(kept) |-> Message(kept[i].role, PyStr(kept[i].content))]

\* A final state holding any message sequence: get_response is about to
\* return its processed form, and get_chat_history is about to read the same
\* state from the thread's checkpoint.
InitAssemble ==
    /\ WebInit
    /\ env \in Environments
    /\ storeUp = TRUE
    /\ graph = "with_cp"
    /\ checkpointer = TRUE
    /\ memory = 0
    /\ \E ms \in SeqsUpTo(MaxLen) :
          /\ checkpoints =
                [s \in Sessions |->
                    IF s = SharedSession
                    THEN << [messages |-> ms, long_term_memory |-> ""] >>
                    ELSE <<>>]
          /\ call = [c \in Coroutines |->
                       [Idle EXCEPT
                          !.op = IF c = "c1" THEN "respond" ELSE "history",
                          !.pc = IF c = "c1" THEN "end" ELSE "get_state",
                          !.status = "running",
                          !.session = SharedSession,
                          !.values = IF c = "c1"
                                     THEN [messages |-> ms,
                                           long_term_memory |-> ""]
                                     ELSE @]]
    /\ writes = [s \in Sessions |-> <<>>]
    /\ tasks = <<>>
    /\ turns = 1
    /\ ops = 2
    /\ submitted = [s \in Sessions |-> <<>>]
    /\ okTurns = [s \in Sessions |-> 0]
    /\ aborted = [s \in Sessions |-> FALSE]
    /\ prev = [op |-> "idle", session |-> "none", status |-> "none",
               result |-> <<>>, deleted |-> << 0, 0 >>]

\* get_response: return self.__process_messages(response["messages"])
AssembleReply(c) ==
    /\ call[c].pc = "end"
    /\ call[c].op = "respond"
    /\ Finish(c, [call[c] EXCEPT
            !.status = "returned",
            !.result = ProcessStructured(call[c].values.messages)])
    /\ UNCHANGED << web, env, storeUp, graph, checkpointer, memory, checkpoints,
                    writes, tasks, turns, submitted >>

\* get_chat_history: self.__process_messages(state.values["messages"]) if
\* state.values else []
AssembleHistory(c) ==
    /\ call[c].pc = "get_state"
    /\ call[c].op = "history"
    /\ LET s == call[c].session
       IN Finish(c, [call[c] EXCEPT
             !.status = "returned",
             !.result = IF checkpoints[s] # <<>>
                        THEN ProcessStructured(Latest(s).messages)
                        ELSE <<>>])
    /\ UNCHANGED << web, env, storeUp, graph, checkpointer, memory, checkpoints,
                    writes, tasks, turns, submitted >>

NextAssemble ==
    \E c \in Coroutines : AssembleReply(c) \/ AssembleHistory(c)

SpecAssemble == InitAssemble /\ [][NextAssemble]_vars

\* ------------------------------------------- LoggingContextMiddleware

\* The requests one worker handles, one after another.
MaxRequests == 3

\* The tokens a client may send and what verify_jwt makes of them: a payload,
\* or an HTTPException(401) for an expired token, an invalid token or any
\* other failure (such as an unreachable key server).
Tokens401 == {"", "expired", "forged", "nokeys"}

Payloads ==
    [ t1 |-> [sub |-> "u1", email |-> "a@x"],
      t2 |-> [sub |-> "u2", email |-> "none"],
      t3 |-> [sub |-> "", email |-> "c@x"],
      t4 |-> [sub |-> "none", email |-> "none"] ]

\* verify_jwt(token)
VerifyJwt(token) ==
    IF token \in DOMAIN Payloads
    THEN [raised |-> FALSE, payload |-> Payloads[token]]
    ELSE [raised |-> TRUE, payload |-> [sub |-> "none", email |-> "none"]]

\* The Authorization header as the pieces that split(" ") gives; <<>> is a
\* request without the header.
AuthHeaders ==
    { <<>>,
      << "Basic", "dXNlcg" >>,
      << "Bearer" >>,
      << "Bearer", "" , "t1" >>,
      << "Bearer", "forged" >>,
      << "Bearer", "expired" >>,
      << "Bearer", "nokeys" >>,
      << "Bearer", "t1" >>,
      << "Bearer", "t2" >>,
      << "Bearer", "t3" >>,
      << "Bearer", "t4" >> }

\* auth_header and auth_header.startswith("Bearer ")
IsBearer(header) == Len(header) >= 2 /\ header[1] = "Bearer"

\* payload.get("sub") when it is truthy, "none" otherwise (no header, no
\* bearer token, verify_jwt raised, no sub claim or an empty one).
UserOf(header) ==
    IF ~IsBearer(header) THEN "none"
    ELSE LET r == VerifyJwt(header[2])
         IN IF r.raised \/ r.payload.sub = "" THEN "none" ELSE r.payload.sub

\* A faulty variant of ClearContext: what was bound stays bound.
ClearContextKeeps == context

\* clear_context()
ClearContext == EmptyContext

\* A request reaches the middleware.
Receive(header) ==
    /\ request.pc = "idle"
    /\ request.n < MaxRequests
    /\ request' = [NoRequest EXCEPT !.n = request.n + 1, !.pc = "clear",
                                    !.header = header]
    /\ UNCHANGED << context, sentryUser, agent >>

\* dispatch: the clear_context() that opens the try block.
ClearBefore ==
    /\ request.pc = "clear"
    /\ context' = ClearContext
    /\ request' = [request EXCEPT !.pc = "token"]
    /\ UNCHANGED << sentryUser, agent >>

\* dispatch: the Authorization header is read; a bearer token is verified
\* and, when it gives a user id, the id is bound to the logging context and
\* given to Sentry; an exception of verify_jwt is passed over.
BindUser ==
    /\ request.pc = "token"
    /\ LET user_id == UserOf(request.header)
       IN /\ context' = IF user_id # "none"
                         THEN [context EXCEPT !.user_id = user_id]
                         ELSE context
          /\ sentryUser' =
                IF user_id # "none"
                THEN [id |-> user_id,
                      email |-> VerifyJwt(request.header[2]).payload.email]
                ELSE sentryUser
          /\ request' = [request EXCEPT !.pc = "call_next",
                                        !.user_id = user_id]
    /\ UNCHANGED agent

\* dispatch: "response = await call_next(request)". The handler runs with
\* the context it finds, may bind the session it works on, and returns a
\* response or raises.
CallNext ==
    /\ request.pc = "call_next"
    /\ \E outcome \in {"returns", "raises"}, session \in Sessions \cup {"none"} :
          /\ request' = [request EXCEPT !.pc = "finally", !.seen = context,
                                        !.outcome = outcome]
          /\ context' = IF session # "none"
                         THEN [context EXCEPT !.session_id = session]
                         ELSE context
    /\ UNCHANGED << sentryUser, agent >>

\* dispatch: the finally clause clears the context; the response is returned
\* or the handler's exception goes on.
ClearAfter ==
    /\ request.pc = "finally"
    /\ context' = ClearContext
    /\ request' = [request EXCEPT
                      !.pc = "idle",
                      !.status = IF request.outcome = "returns"
                                 THEN "returned" ELSE "raised"]
    /\ UNCHANGED << sentryUser, agent >>

NextMiddleware ==
    \/ \E header \in AuthHeaders : Receive(header)
    \/ ClearBefore
    \/ BindUser
    \/ CallNext
    \/ ClearAfter

SpecMiddleware == Init /\ [][NextMiddleware]_vars

\* ================================================================ claims

\* The caller-visible form of the messages of `messages` that satisfy Keep.
Visible(messages, Keep(_)) ==
    LET kept == SelectSeq(messages, Keep)
    IN [i \in 1..Len(kept) |->
          Message(IF kept[i].type = "human" THEN "user" ELSE "assistant",
                  kept[i].content)]

IsUserOrAssistant(m) == m.type \in {"human", "ai"}

IsUserOrAssistantWithText(m) == m.type \in {"human", "ai"} /\ m.content # ""

\* Caller c's last operation was `op` on session s and is over.
Completed(c, op, s) ==
    call[c].op = op /\ call[c].session = s /\ call[c].pc = "idle"

\* C1 as stated, in the case where the checkpoint store is reachable: after N
\* successful turns of a session (none aborted), get_chat_history returns
\* exactly the user and assistant messages of those turns, in submission
\* order, and no tool message.
C1_HistoryAllUserAssistant ==
    \A c \in Callers, s \in Sessions :
        (storeUp /\ Completed(c, "history", s) /\ ~aborted[s]) =>
            /\ call[c].status = "returned"
            /\ call[c].result = Visible(submitted[s], IsUserOrAssistant)

\* C1 amended: with the checkpoint store reachable, after N successful turns
\* of a session get_chat_history returns exactly the user and assistant
\* messages of those turns that have a non-empty content, in submission
\* order, and no tool message.
C1_HistoryUserAssistantWithText ==
    \A c \in Callers, s \in Sessions :
        (storeUp /\ Completed(c, "history", s) /\ ~aborted[s]) =>
            /\ call[c].status = "returned"
            /\ call[c].result = Visible(submitted[s], IsUserOrAssistantWithText)
            /\ \A i \in 1..Len(call[c].result) :
                  call[c].result[i].role \in {"user", "assistant"}

\* Two successful turns with a tool round, then the history: four visible
\* messages, while a tool-call message without text and tool results were
\* submitted.
C1_Witness ==
    \E c \in Callers, s \in Sessions :
        /\ Completed(c, "history", s)
        /\ call[c].status = "returned"
        /\ okTurns[s] = 2
        /\ ~aborted[s]
        /\ Len(call[c].result) = 4
        /\ \E i \in 1..Len(submitted[s]) : submitted[s][i].type = "tool"
        /\ \E i \in 1..Len(submitted[s]) :
              /\ submitted[s][i].tool_calls # NoCalls
              /\ submitted[s][i].content = ""


Last(seq) == seq[Len(seq)]

\* The final assistant message of the session's latest turn.
FinalAssistant(s) == Last(submitted[s])

\* Caller c's last two operations were a get_response on s that returned
\* and then a get_chat_history on s.
RespondThenHistory(c, s) ==
    /\ Completed(c, "history", s)
    /\ prev.op = "respond" /\ prev.session = s /\ prev.status = "returned"

\* C2 as stated, in the case where the checkpoint store is reachable: when
\* get_response returns and get_chat_history is called next, the last element
\* of the history equals the last element of the reply, and it is the turn's
\* final assistant message.
C2_RoundTripFinalAssistant ==
    \A c \in Callers, s \in Sessions :
        (storeUp /\ RespondThenHistory(c, s)) =>
            /\ call[c].status = "returned"
            /\ call[c].result # <<>>
            /\ Last(call[c].result) = Last(prev.result)
            /\ Last(call[c].result) =
                  Message("assistant", FinalAssistant(s).content)

\* C2 amended: with the checkpoint store reachable, get_chat_history called
\* right after a get_response that returned gives the same list as the
\* reply, so their last elements are equal; that element is the turn's final
\* assistant message whenever that message has a non-empty content.
C2_RoundTripSameList ==
    \A c \in Callers, s \in Sessions :
        (storeUp /\ RespondThenHistory(c, s)) =>
            /\ call[c].status = "returned"
            /\ call[c].result # <<>>
            /\ call[c].result = prev.result
            /\ Last(call[c].result) = Last(prev.result)
            /\ FinalAssistant(s).type = "ai"
            /\ FinalAssistant(s).content # "" =>
                  Last(call[c].result) =
                      Message("assistant", FinalAssistant(s).content)

\* A turn with a tool round returned "ans" and the history was read next.
C2_Witness ==
    \E c \in Callers, s \in Sessions :
        /\ storeUp
        /\ RespondThenHistory(c, s)
        /\ call[c].status = "returned"
        /\ Last(call[c].result) = Message("assistant", "ans")
        /\ \E i \in 1..Len(submitted[s]) : submitted[s][i].type = "tool"

\* C3: the tool-execution step invokes the tool calls [c1, ..., cn] of the
\* last assistant message one at a time in that order (at every point the
\* calls invoked are c1..ck and outputs holds their k results, in order), and
\* when it returns, exactly n tool messages with the identifiers
\* id(c1), ..., id(cn), in that order, follow the assistant message.
C3_ToolCallOrder ==
    \A c \in Callers :
        /\ call[c].pc = "tool_call" =>
              LET calls == PendingCalls(c)
                  out == call[c].outputs
              IN /\ Len(out) <= Len(calls)
                 /\ Len(call[c].invoked) = Len(out)
                 /\ \A k \in 1..Len(out) :
                       /\ out[k].type = "tool"
                       /\ out[k].tool_call_id = calls[k].id
                       /\ out[k].name = calls[k].name
                       /\ call[c].invoked[k] = calls[k].id
        /\ LET ms == call[c].values.messages
           IN \A j \in 1..Len(ms) :
                 (/\ j > Len(call[c].before) + Len(call[c].input)
                  /\ ms[j].tool_calls # NoCalls
                  /\ j < Len(ms)) =>
                     LET n == Len(ms[j].tool_calls)
                     IN /\ j + n <= Len(ms)
                        /\ \A k \in 1..n :
                              /\ ms[j + k].type = "tool"
                              /\ ms[j + k].tool_call_id = ms[j].tool_calls[k].id
                        /\ j + n < Len(ms) => ms[j + n + 1].type # "tool"

\* The round [weather k9, search k2] is over: both tools were invoked in
\* that order and their two results are the last messages of the state.
C3_Witness ==
    \E c \in Callers :
        /\ call[c].pc = "chat"
        /\ call[c].rounds = 1
        /\ call[c].invoked = << "k9", "k2" >>
        /\ LET ms == call[c].values.messages
           IN /\ ms[Len(ms) - 1].tool_call_id = "k9"
              /\ ms[Len(ms)].tool_call_id = "k2"
              /\ ms[Len(ms) - 2].tool_calls # NoCalls


\* C4: with the checkpoint store unreachable, outside production
\* get_response raises at graph creation, before any model call and with no
\* reply; in production no get_response raises because of the store: the
\* turn runs the chat / tool_call loop on a graph without checkpointer and
\* returns a reply, unless the model or a tool itself fails.
C4_DegradedMode ==
    \A c \in Callers :
        (call[c].op = "respond" /\ ~storeUp) =>
            IF env # "production"
            THEN /\ call[c].pc \in {"graph", "idle"}
                 /\ call[c].modelCalls = 0
                 /\ call[c].pc = "idle" =>
                       /\ call[c].status = "raised"
                       /\ call[c].error = "checkpointer"
                       /\ call[c].result = <<>>
            ELSE /\ call[c].pc \notin {"graph", "memory"} => graph = "no_cp"
                 /\ (call[c].pc = "idle" /\ call[c].status = "raised") =>
                       call[c].error \in {"llm", "unknown_tool", "tool_error"}
                 /\ (call[c].pc = "idle" /\ call[c].status = "returned") =>
                       /\ call[c].modelCalls > call[c].rounds
                       /\ call[c].result = ProcessMessages(call[c].values.messages)
                       /\ call[c].result # <<>>

\* In production with the store unreachable a turn with a tool round
\* returned its reply.
C4_Witness ==
    \E c \in Callers :
        /\ env = "production" /\ ~storeUp
        /\ call[c].op = "respond" /\ call[c].pc = "idle"
        /\ call[c].status = "returned"
        /\ call[c].rounds = 1
        /\ Last(call[c].result) = Message("assistant", "ans")

\* Caller c's turn was aborted by the model or by a tool call.
TurnAborted(c) ==
    /\ IsTurn(call[c].op) /\ call[c].pc = "idle" /\ call[c].status = "raised"
    /\ call[c].error \in {"llm", "unknown_tool"}

\* C5: when a turn aborts fatally (the model fails in a chat step, also one
\* that follows tool rounds, or a tool call names an unknown tool), the state
\* persisted for the session is the same as before the turn began: no message
\* of the aborted turn is committed.
C5_AbortCommitsNothing ==
    \A c \in Callers :
        TurnAborted(c) =>
            Latest(call[c].session).messages = call[c].before

\* What an aborted turn leaves behind on a graph with checkpointer: the
\* failure reaches the caller and the failing step commits nothing, but what
\* the turn completed before it stays committed: the persisted messages are
\* those from before the turn,
\* then the turn's input messages, then the messages of every step that
\* completed (after a failed first chat step: just the input; after an
\* unknown tool: up to the assistant message that asked for it; after a
\* failed later chat step: up to the tool results of the last round).
AbortKeepsCompletedSteps ==
    \A c \in Callers :
        (TurnAborted(c) /\ graph = "with_cp") =>
            LET ms == Latest(call[c].session).messages
                base == call[c].before \o DumpMessages(call[c].input)
            IN /\ call[c].result = <<>>
               /\ ms = call[c].values.messages
               /\ Len(ms) >= Len(base)
               /\ SubSeq(ms, 1, Len(base)) = base
               /\ (call[c].error = "llm" /\ call[c].rounds = 0) => ms = base
               /\ (call[c].error = "llm" /\ call[c].rounds > 0) =>
                     Last(ms).type = "tool"
               /\ call[c].error = "unknown_tool" =>
                     /\ Last(ms).type = "ai"
                     /\ Last(ms).tool_calls # NoCalls

\* The second turn of a session was aborted by the model after a tool round.
C5_Witness ==
    \E c \in Callers :
        /\ TurnAborted(c) /\ graph = "with_cp"
        /\ call[c].error = "llm"
        /\ call[c].rounds = 1
        /\ call[c].before # <<>>

\* C6: when the memory service fails during the pre-turn search (client
\* construction fails, search raises, malformed result),
\* _get_relevant_memory returns "" without raising, the turn goes on with
\* long_term_memory set to the placeholder, and get_response returns its
\* normal reply.
C6_MemoryBestEffort ==
    \A c \in Callers :
        IsTurn(call[c].op) =>
            /\ call[c].error # "memory"
            /\ (call[c].pc = "invoke" /\ MemoryFailed(call[c].memOutcome)) =>
                  /\ GetRelevantMemory(call[c].memOutcome) =
                        [text |-> "", raised |-> FALSE]
                  /\ call[c].relevant = Placeholder
            /\ (call[c].memFailed /\ call[c].pc \in {"chat", "tool_call", "end"}) =>
                  call[c].values.long_term_memory = Placeholder
            /\ (call[c].memFailed /\ call[c].pc = "idle"
                  /\ call[c].status = "returned") =>
                  /\ call[c].values.long_term_memory = Placeholder
                  /\ call[c].result = ProcessMessages(call[c].values.messages)
                  /\ call[c].result # <<>>

\* A turn whose memory search failed returned the model's answer.
C6_Witness ==
    \E c \in Callers :
        /\ call[c].op = "respond" /\ call[c].pc = "idle"
        /\ call[c].status = "returned"
        /\ call[c].memFailed
        /\ call[c].values.long_term_memory = Placeholder
        /\ Last(call[c].result) = Message("assistant", "ans")

\* C7: with the checkpoint store reachable clear_chat_history never raises,
\* and a second clear of the same session right after a first deletes zero
\* checkpoint records and zero write records.
C7_ClearTwice ==
    \A c \in Callers, s \in Sessions :
        (storeUp /\ Completed(c, "clear", s)) =>
            /\ call[c].status = "returned"
            /\ (prev.op = "clear" /\ prev.session = s
                  /\ prev.status = "returned") =>
                  call[c].deleted = << 0, 0 >>

\* A first clear deleted records of both collections, the second none.
C7_Witness ==
    \E c \in Callers, s \in Sessions :
        /\ Completed(c, "clear", s) /\ call[c].status = "returned"
        /\ prev.op = "clear" /\ prev.session = s /\ prev.status = "returned"
        /\ prev.deleted[1] > 0 /\ prev.deleted[2] > 0
        /\ call[c].deleted = << 0, 0 >>

\* C8: in every deployment mode, with the checkpoint store unavailable
\* clear_chat_history raises and never reaches a delete: no checkpoint record
\* and no write record is deleted.
C8_ClearRaisesWithoutStore ==
    \A c \in Callers :
        (call[c].op = "clear" /\ ~storeUp) =>
            /\ call[c].pc \in {"checkpointer", "idle"}
            /\ call[c].deleted = << 0, 0 >>
            /\ call[c].pc = "idle" =>
                  /\ call[c].status = "raised"
                  /\ call[c].error = "checkpointer"

\* In production, after a turn that ran without persistence, a clear raised.
C8_Witness ==
    \E c \in Callers, s \in Sessions :
        /\ env = "production" /\ ~storeUp
        /\ Completed(c, "clear", s) /\ call[c].status = "raised"
        /\ okTurns[s] = 1


\* A message of a tool round: an assistant message that carries tool calls,
\* or a tool result.
OfToolRound(m) == m.type = "tool" \/ m.tool_calls # NoCalls

ShownOutsideToolRounds(m) == IsUserOrAssistantWithText(m) /\ ~OfToolRound(m)

\* C9, on a graph compiled with the checkpointer: after a successful turn
\* with at least one tool round the reply of get_response holds no assistant
\* tool-call message and no tool result, while the checkpoint of the session
\* holds all of them, each tool-call message followed by its results, before
\* the final assistant message.
C9_ToolRoundHidden ==
    \A c \in Callers :
        (/\ graph = "with_cp"
         /\ call[c].op = "respond" /\ call[c].pc = "idle"
         /\ call[c].status = "returned" /\ call[c].rounds >= 1) =>
            LET all == call[c].values.messages
            IN /\ call[c].result = Visible(all, ShownOutsideToolRounds)
               /\ Latest(call[c].session).messages = all
               /\ \E i \in 1..(Len(all) - 2) :
                     /\ all[i].tool_calls # NoCalls
                     /\ all[i + 1].type = "tool"
               /\ ~OfToolRound(Last(all))

\* A turn with a tool round returned a reply that holds the text of the
\* assistant message that asked for the tools.
C9_Witness ==
    \E c \in Callers :
        /\ graph = "with_cp"
        /\ call[c].op = "respond" /\ call[c].pc = "idle"
        /\ call[c].status = "returned" /\ call[c].rounds = 1
        /\ \E i \in 1..Len(call[c].result) :
              call[c].result[i] = Message("assistant", "hm")
        /\ Last(call[c].result) = Message("assistant", "ans")

\* C10: get_stream_response yields only tokens of the final chat step: every
\* non-empty fragment it yielded was generated for an assistant message
\* without tool calls, never for an assistant message that carries tool calls
\* nor for a tool result.
C10_StreamOnlyFinal ==
    \A c \in Callers :
        call[c].op = "stream" =>
            \A i \in 1..Len(call[c].yielded) :
                call[c].yielded[i].text # "" =>
                    call[c].yielded[i].origin = "final"

\* A streamed turn with a tool round is over; among the fragments it yielded
\* are one of the tool-call message, one of a tool result and the final ones.
C10_Witness ==
    \E c \in Callers :
        /\ call[c].op = "stream" /\ call[c].pc = "idle"
        /\ call[c].status = "returned" /\ call[c].rounds = 1
        /\ \E i, j, k \in 1..Len(call[c].yielded) :
              /\ i < j /\ j < k
              /\ call[c].yielded[i] = [text |-> "h", origin |-> "tool_call_ai"]
              /\ call[c].yielded[j].origin = "tool"
              /\ call[c].yielded[k] = [text |-> "an", origin |-> "final"]


\* The origins of the items astream hands over.
StreamOrigins == {"tool_call_ai", "tool", "final"}

\* Caller c's streamed turn has failed.
StreamFailed(c) ==
    call[c].op = "stream" /\ call[c].pc = "idle" /\ call[c].status = "raised"

\* C11: when a streamed turn fails after k fragments were yielded, the caller
\* has exactly those k fragments: the failing step yields nothing more and
\* schedules nothing, every yielded fragment was handed over by the run (no
\* synthetic completion fragment), after the failure nothing happens to the
\* turn until the caller starts another operation (no retry), and memory
\* updates exist only for the turns that returned.
C11_StreamFailsMidSequence ==
    /\ [](/\ Len(tasks) = okTurns["s1"] + okTurns["s2"]
          /\ \A c \in Callers :
                StreamFailed(c) =>
                    /\ call[c].result = <<>>
                    /\ \A i \in 1..Len(call[c].yielded) :
                          call[c].yielded[i].origin \in StreamOrigins)
    /\ [][\A c \in Callers :
            /\ (call[c].op = "stream" /\ call[c].status = "running"
                  /\ call'[c].status = "raised") =>
                  /\ call'[c].yielded = call[c].yielded
                  /\ tasks' = tasks
                  /\ checkpoints' = checkpoints
            /\ (StreamFailed(c) /\ call'[c] # call[c]) =>
                  /\ call'[c].pc = "graph"
                  /\ call'[c].yielded = <<>>
                  /\ tasks' = tasks]_vars

\* The model failed while it generated the final answer: "an" was yielded,
\* "s" never is.
C11_Witness ==
    \E c \in Callers :
        /\ StreamFailed(c)
        /\ call[c].error = "llm"
        /\ call[c].rounds = 1
        /\ Len(call[c].yielded) >= 2
        /\ Last(call[c].yielded) = [text |-> "an", origin |-> "final"]
        /\ call[c].pending = << [text |-> "s", origin |-> "final"] >>


\* The messages a turn has added to those the run started from.
TurnPart(c) ==
    SubSeq(call[c].values.messages,
           Len(call[c].before) + Len(call[c].input) + 1,
           Len(call[c].values.messages))

\* Every assistant message of `messages` that carries tool calls is directly
\* followed by one tool result per call, in call order.
RoundsComplete(messages) ==
    \A i \in 1..Len(messages) :
        LET calls == messages[i].tool_calls
        IN /\ i + Len(calls) <= Len(messages)
           /\ \A k \in 1..Len(calls) :
                 /\ messages[i + k].type = "tool"
                 /\ messages[i + k].tool_call_id = calls[k].id

\* The number of assistant messages of `messages` that carry tool calls.
ToolCallMessages(messages) ==
    Cardinality({ i \in 1..Len(messages) : messages[i].tool_calls # NoCalls })

\* C12: in both response modes a memory update is scheduled only by a turn
\* whose graph run is over (single-shot: ainvoke returned; streaming: the
\* stream is exhausted), with the checkpoint of the final state already
\* committed when the graph has a checkpointer, and the history handed to the
\* task is the complete turn: everything from before the turn, the input,
\* every tool round with all its results, and last the final assistant
\* message.
C12_MemoryUpdateAfterFinalState ==
    [][tasks' # tasks =>
         \E c \in Callers :
             LET all == call[c].values.messages
             IN /\ IsTurn(call[c].op) /\ call[c].pc = "end"
                /\ call'[c].pc = "idle" /\ call'[c].status = "returned"
                /\ checkpoints' = checkpoints
                /\ graph = "with_cp" => Latest(call[c].session).messages = all
                /\ tasks' = Append(tasks, Last(tasks'))
                /\ Last(tasks').state = "scheduled"
                /\ Last(tasks').messages = ConvertToOpenAIMessages(all)
                /\ SubSeq(all, 1, Len(call[c].before) + Len(call[c].input))
                      = call[c].before \o DumpMessages(call[c].input)
                /\ Last(all).type = "ai" /\ Last(all).tool_calls = NoCalls
                /\ ToolCallMessages(TurnPart(c)) = call[c].rounds
                /\ RoundsComplete(TurnPart(c))]_vars

\* A single-shot turn and then a streamed turn with a tool round each have
\* scheduled their memory update, the second one with the tool results.
C12_Witness ==
    \E c \in Callers :
        /\ call[c].op = "stream" /\ call[c].pc = "idle"
        /\ call[c].status = "returned" /\ call[c].rounds = 1
        /\ prev.op = "respond" /\ prev.status = "returned"
        /\ Len(tasks) = 2
        /\ tasks[2].messages =
              ConvertToOpenAIMessages(Latest(call[c].session).messages)
        /\ \E i \in 1..Len(tasks[2].messages) : tasks[2].messages[i].role = "tool"
        /\ Last(tasks[2].messages) = Message("assistant", "ans")


\* Caller c's turn on its session and the turn before it, on another session,
\* both returned, one through get_response and one through
\* get_stream_response, each the only turn of its session, and they had the
\* same input, the same memory and the same model and tool behaviour.
SameTurnBothModes(c) ==
    LET s == call[c].session
        p == prev.session
    IN /\ IsTurn(call[c].op) /\ call[c].pc = "idle"
       /\ call[c].status = "returned"
       /\ IsTurn(prev.op) /\ prev.op # call[c].op /\ prev.status = "returned"
       /\ p \in Sessions /\ p # s
       /\ okTurns[s] = 1 /\ okTurns[p] = 1
       /\ ~aborted[s] /\ ~aborted[p]
       /\ submitted[s] = submitted[p]
       /\ Latest(s).long_term_memory = Latest(p).long_term_memory

\* C13: a successful turn run through get_stream_response has the same
\* effects as the same turn run through get_response: the same conversation
\* state of the session, and exactly one memory update with the same message
\* history and the same metadata (up to the session id) and user id.
C13_StreamSameAsSingleShot ==
    \A c \in Callers :
        SameTurnBothModes(c) =>
            LET s == call[c].session
                p == prev.session
            IN /\ Latest(s) = Latest(p)
               /\ Latest(s).messages = submitted[s]
               /\ Len(checkpoints[s]) = Len(checkpoints[p])
               /\ Len(tasks) = 2
               /\ tasks[1].metadata.session_id = p
               /\ tasks[2].metadata.session_id = s
               /\ tasks[1].messages = tasks[2].messages
               /\ tasks[1].messages = ConvertToOpenAIMessages(submitted[s])
               /\ tasks[1].user_id = tasks[2].user_id
               /\ [tasks[1].metadata EXCEPT !.session_id = s] = tasks[2].metadata

\* The same turn with a tool round ran single-shot on one session and
\* streamed on another.
C13_Witness ==
    \E c \in Callers :
        /\ SameTurnBothModes(c)
        /\ call[c].op = "stream"
        /\ call[c].rounds = 1
        /\ Len(tasks) = 2
        /\ Last(tasks[2].messages) = Message("assistant", "ans")


\* The background task i is over.
TaskOver(i) == tasks[i].state \in {"done", "failed"}

\* C14: the memory update is fire-and-forget. get_response returns with its
\* task merely scheduled; whatever a task does afterwards (run, fail, never
\* finish) changes neither a caller's operation or reply nor the checkpoint
\* store; no caller ever fails because of memory; memory.add is called at
\* most once per task and a task that is over is never run again; and there
\* is never more than one task per turn.
C14_FireAndForget ==
    /\ [](/\ Len(tasks) <= turns
          /\ \A i \in 1..Len(tasks) : tasks[i].adds <= 1
          /\ \A c \in Callers : call[c].error # "memory")
    /\ [][/\ \A c \in Callers :
               (call[c].op = "respond" /\ call[c].status = "running"
                  /\ call'[c].status = "returned") =>
                  /\ Len(tasks') = Len(tasks) + 1
                  /\ Last(tasks').state = "scheduled"
                  /\ Last(tasks').adds = 0
          /\ \A i \in 1..Len(tasks) :
               /\ tasks'[i] # tasks[i] =>
                     /\ call' = call
                     /\ checkpoints' = checkpoints
                     /\ writes' = writes
                     /\ graph' = graph
                     /\ Len(tasks') = Len(tasks)
               /\ TaskOver(i) => tasks'[i] = tasks[i]]_vars

\* A turn returned its reply, its memory update failed in memory.add, and a
\* history read afterwards returned the same messages.
C14_Witness ==
    \E c \in Callers :
        /\ Completed(c, "history", SharedSession)
        /\ call[c].status = "returned"
        /\ prev.op = "respond" /\ prev.status = "returned"
        /\ prev.result # <<>>
        /\ call[c].result = prev.result
        /\ Len(tasks) = 1
        /\ tasks[1].state = "failed" /\ tasks[1].adds = 1


\* Caller c's turn is inside the graph run, before and after the step.
InRun(c) ==
    /\ call[c].op = "respond"
    /\ call[c].status = "running" /\ call'[c].status = "running"

\* C15: every chat step whose model call succeeds appends exactly one
\* message, the assistant message returned, and goes to tool_call if and
\* only if that message carries a tool call, to the terminal state otherwise;
\* the tool-execution step always goes back to chat; so the run is over only
\* after a chat step whose message has no tool calls.
C15_ChatRouting ==
    /\ [](\A c \in Callers :
            (call[c].op = "respond" /\ call[c].pc = "end") =>
                /\ Last(call[c].values.messages).type = "ai"
                /\ Last(call[c].values.messages).tool_calls = NoCalls)
    /\ [][\A c \in Callers :
            /\ (InRun(c) /\ call[c].pc = "chat") =>
                  LET old == call[c].values.messages
                      new == call'[c].values.messages
                  IN /\ Len(new) = Len(old) + 1
                     /\ SubSeq(new, 1, Len(old)) = old
                     /\ Last(new).type = "ai"
                     /\ call'[c].pc \in {"tool_call", "end"}
                     /\ call'[c].pc = "tool_call" <=> Last(new).tool_calls # NoCalls
            /\ (InRun(c) /\ call[c].pc = "tool_call"
                  /\ call'[c].pc # "tool_call") => call'[c].pc = "chat"
            /\ (InRun(c) /\ call'[c].pc = "end") => call[c].pc = "chat"
            /\ (call[c].op = "respond" /\ call[c].status = "running"
                  /\ call'[c].status = "returned") => call[c].pc = "end"]_vars

\* A run reached the terminal state after one tool round: chat, tool_call,
\* chat.
C15_Witness ==
    \E c \in Callers :
        /\ call[c].op = "respond" /\ call[c].pc = "end"
        /\ call[c].rounds = 1
        /\ call[c].modelCalls = 2
        /\ ToolCallMessages(TurnPart(c)) = 1


\* In `messages` every tool message follows, with only tool messages in
\* between, an assistant message one and only one of whose calls has the tool
\* message's identifier, and no other result of that round has it.
ToolMessagesAnswer(messages) ==
    \A j \in 1..Len(messages) :
        messages[j].type = "tool" =>
            \E i \in 1..(j - 1) :
                LET calls == messages[i].tool_calls
                IN /\ messages[i].type = "ai"
                   /\ \A k \in (i + 1)..j : messages[k].type = "tool"
                   /\ j - i <= Len(calls)
                   /\ Cardinality({ k \in 1..Len(calls) :
                          calls[k].id = messages[j].tool_call_id }) = 1
                   /\ \A k \in (i + 1)..(j - 1) :
                          messages[k].tool_call_id # messages[j].tool_call_id

\* The last assistant message of `messages` that carries tool calls has, right
\* after it and up to the end, exactly one result for each of its calls.
LastRoundAnswered(messages) ==
    \E i \in 1..Len(messages) :
        LET calls == messages[i].tool_calls
        IN /\ calls # NoCalls
           /\ Len(messages) = i + Len(calls)
           /\ \A k \in 1..Len(calls) :
                 Cardinality({ j \in (i + 1)..Len(messages) :
                     /\ messages[j].type = "tool"
                     /\ messages[j].tool_call_id = calls[k].id }) = 1

\* C16: in every conversation state, in a run and in the checkpoint store,
\* each tool message directly follows (only sibling tool messages in
\* between) the assistant message whose calls it answers and its identifier
\* is that of exactly one of those calls; and whenever chat is entered after a
\* tool round, every call of the preceding assistant message has exactly one
\* result.
C16_ToolMessagesFollowTheirCall ==
    /\ \A c \in Callers :
          /\ ToolMessagesAnswer(call[c].values.messages)
          /\ (call[c].pc = "chat" /\ call[c].rounds > 0) =>
                LastRoundAnswered(call[c].values.messages)
    /\ \A s \in Sessions :
          \A n \in 1..Len(checkpoints[s]) :
              ToolMessagesAnswer(checkpoints[s][n].messages)

\* chat is entered after a tool round of the second turn of a session.
C16_Witness ==
    \E c \in Callers :
        /\ call[c].op = "respond" /\ call[c].pc = "chat"
        /\ call[c].rounds = 1
        /\ call[c].before # <<>>
        /\ Last(call[c].values.messages).type = "tool"
        /\ Latest(call[c].session).messages = call[c].values.messages


\* Caller c's turn was ended by a call of a tool that is not registered.
UnknownTool(c) == call[c].op = "respond" /\ call[c].error = "unknown_tool"

\* The identifiers of the first n calls of `calls`.
CallIds(calls, n) == [k \in 1..n |-> calls[k].id]

\* C17: a tool call that names an unregistered tool ends the turn: the
\* failure reaches the caller of get_response, the calls before it were
\* invoked and none after it, the step appends no tool result to the state
\* (nor to the checkpoint), no result is ever produced for an unregistered
\* name, and afterwards neither the lookup nor the chat step runs again for
\* that turn.
C17_UnknownToolIsFatal ==
    /\ [](\A c \in Callers :
            /\ \A k \in 1..Len(call[c].outputs) :
                  call[c].outputs[k].name \in ToolNames
            /\ \A k \in 1..Len(call[c].values.messages) :
                  call[c].values.messages[k].type = "tool" =>
                      call[c].values.messages[k].name \in ToolNames
            /\ UnknownTool(c) =>
                  LET ms == call[c].values.messages
                      calls == Last(ms).tool_calls
                  IN /\ call[c].pc = "idle" /\ call[c].status = "raised"
                     /\ call[c].result = <<>>
                     /\ Last(ms).type = "ai"
                     /\ \E k \in 1..Len(calls) :
                           /\ calls[k].name \notin ToolNames
                           /\ \A j \in 1..(k - 1) : calls[j].name \in ToolNames
                           /\ call[c].invoked = CallIds(calls, k - 1)
                     /\ call[c].modelCalls = call[c].rounds + 1
                     /\ graph = "with_cp" =>
                           Latest(call[c].session).messages = ms)
    /\ [][\A c \in Callers :
            /\ (call[c].op = "respond" /\ call[c].error = "none"
                  /\ call'[c].error = "unknown_tool") =>
                  /\ call[c].pc = "tool_call"
                  /\ call'[c].values = call[c].values
                  /\ checkpoints' = checkpoints
                  /\ writes' = writes
                  /\ tasks' = tasks
            /\ (UnknownTool(c) /\ call'[c] # call[c]) =>
                  call'[c].pc \in {"graph", "checkpointer"}]_vars

\* The registered tool before the unknown one was invoked, the one after it
\* never.
C17_Witness ==
    \E c \in Callers :
        /\ UnknownTool(c)
        /\ call[c].invoked = << "k4" >>
        /\ Len(Last(call[c].values.messages).tool_calls) = 3
        /\ call[c].outputs # <<>>


\* The chat steps a run can take before it is out of steps.
MaxChatSteps == (RecursionLimit + 1) \div 2

\* The turn of caller c has passed its model calls and every one of them so
\* far has asked for tools.
AlwaysAsksTools(c) ==
    /\ call[c].op = "respond"
    /\ call[c].modelCalls > 0
    /\ ToolCallMessages(TurnPart(c)) = call[c].modelCalls

\* C18 as stated: with model and tools that always return, a turn whose
\* model has asked for tools at every chat step is still running: it never
\* returns and never raises.
C18_LoopsForever ==
    \A c \in Callers : AlwaysAsksTools(c) => call[c].status = "running"

\* C18: with model and tools that always return, a turn returns only after a
\* chat step whose message has no tool calls and only within the first
\* MaxChatSteps chat steps; a turn whose model asks for tools at each of
\* these chat steps raises the recursion error, after RecursionLimit steps;
\* so every turn that is started ends, whatever the model answers.
C18_LoopEndsWithinLimit ==
    /\ [](\A c \in Callers :
            call[c].op = "respond" =>
               /\ call[c].modelCalls <= MaxChatSteps
               /\ 2 * call[c].rounds + 1 <= RecursionLimit
               /\ call[c].status = "returned" =>
                     /\ Last(call[c].values.messages).tool_calls = NoCalls
                     /\ ToolCallMessages(TurnPart(c)) = call[c].modelCalls - 1
               /\ call[c].error = "recursion" <=>
                     /\ call[c].status = "raised"
                     /\ call[c].modelCalls = MaxChatSteps
                     /\ AlwaysAsksTools(c)
               /\ (call[c].status = "running" /\ call[c].pc = "tool_call") =>
                     AlwaysAsksTools(c))
    /\ \A c \in Callers :
          (call[c].op = "respond" /\ call[c].status = "running")
             ~> (call[c].status \in {"returned", "raised"})

\* A turn was ended by the recursion error: its model asked for tools at
\* every one of the MaxChatSteps chat steps.
C18_Witness ==
    \E c \in Callers :
        /\ call[c].status = "raised"
        /\ call[c].error = "recursion"
        /\ 2 * call[c].rounds + 1 = RecursionLimit
        /\ ToolCallMessages(TurnPart(c)) = MaxChatSteps


\* Sequence p is a prefix of sequence q.
IsPrefix(p, q) == Len(p) <= Len(q) /\ SubSeq(q, 1, Len(p)) = p

\* Caller c's turn has a graph state: the run has applied its input.
HasState(c) ==
    /\ call[c].op = "respond"
    /\ call[c].pc \in {"chat", "tool_call", "end"}

\* C19 as stated: whatever the graph, the sequence a turn works on holds
\* every message the session's earlier turns put into the state, unchanged
\* and in order, followed by what this turn has added.
C19_EveryTurnKeepsEarlierMessages ==
    \A c \in Callers :
        HasState(c) => call[c].values.messages = submitted[call[c].session]

\* C19: every step of a run leaves the run's message sequence as a prefix of
\* the new one; on a graph with a checkpointer the sequence a turn works on
\* is all that the session's turns have put into the state since the session
\* was last cleared, and no step other than clearing takes a message out of
\* the stored sequence or changes its order; on a graph without a
\* checkpointer every turn starts from the empty sequence.
C19_AppendOnly ==
    /\ [](\A c \in Callers :
            HasState(c) =>
               /\ graph = "with_cp" =>
                     call[c].values.messages = submitted[call[c].session]
               /\ graph = "no_cp" => call[c].before = <<>>
               /\ IsPrefix(call[c].before \o DumpMessages(call[c].input),
                           call[c].values.messages))
    /\ [][/\ \A c \in Callers :
               InRun(c) => IsPrefix(call[c].values.messages,
                                    call'[c].values.messages)
          /\ \A s \in Sessions :
               checkpoints'[s] # <<>> =>
                  IsPrefix(Latest(s).messages, Latest(s)'.messages)]_vars

\* The second turn of a stored session has finished a tool round: the
\* sequence holds the earlier turn, the input, the assistant message and
\* its tool results.
C19_Witness ==
    \E c \in Callers :
        /\ graph = "with_cp"
        /\ HasState(c) /\ call[c].pc = "chat"
        /\ call[c].before # <<>>
        /\ call[c].rounds = 1
        /\ Len(TurnPart(c)) > 1
        /\ Latest(call[c].session).messages = call[c].values.messages


\* The checkpointer and the compiled graph are assigned at most once: a step
\* that changes either one starts with it unset.
GraphAndCheckpointerBuiltOnce ==
    [][/\ checkpointer' # checkpointer => checkpointer = FALSE
       /\ graph' # graph => graph = "none"]_vars

\* The memory clients held by the coroutines that have passed
\* _long_term_memory.
ClientsHeld ==
    { call[c].client : c \in DOMAIN call }
       \cup { tasks[i].client : i \in 1..Len(tasks) }

\* C20: the checkpointer, the compiled graph and the long-term memory client
\* are each constructed at most once, whatever the interleaving of turns,
\* history reads, clears and background memory updates, and every coroutine
\* that asks for the memory client gets the same one.
C20_ConstructedOnce ==
    /\ [](memory <= 1 /\ ClientsHeld \subseteq {0, 1})
    /\ GraphAndCheckpointerBuiltOnce

\* Two turns entered _long_term_memory while self.memory was None: each
\* constructed a client of its own and they hold different ones.
C20_Witness ==
    \E c, d \in DOMAIN call :
        /\ call[c].op = "respond" /\ call[d].op = "respond"
        /\ call[c].client = 1
        /\ call[d].client = 2
        /\ memory = 2


\* The user's query of the input submitted on session s.
QueryOf(s) == IF s = "s1" THEN "q1" ELSE "q2"

\* Every human message of `messages` is the query submitted on session s.
OnlyQueriesOf(s, messages) ==
    \A i \in 1..Len(messages) :
        messages[i].type = "human" => messages[i].content = QueryOf(s)

\* The callers whose record the step changes.
Stepping == { c \in DOMAIN call : call'[c] # call[c] }

\* C21: with turns on two sessions interleaved, every checkpoint stored
\* under a session holds only what the turns of that session put into the
\* state, a running turn works on its own session's messages and returns
\* their processed form, and a step changes the checkpoints and writes of a
\* session only when it is a step of a turn on that session.
C21_SessionIsolation ==
    /\ [](/\ \A s \in Sessions :
               /\ \A k \in 1..Len(checkpoints[s]) :
                     /\ OnlyQueriesOf(s, checkpoints[s][k].messages)
                     /\ IsPrefix(checkpoints[s][k].messages, submitted[s])
               /\ checkpoints[s] # <<>> => Latest(s).messages = submitted[s]
          /\ \A c \in DOMAIN call :
               /\ (HasState(c) /\ graph = "with_cp") =>
                     /\ call[c].session = SessionOf(c)
                     /\ call[c].values.messages = submitted[SessionOf(c)]
               /\ (call[c].op = "respond" /\ call[c].status = "returned") =>
                     /\ OnlyQueriesOf(SessionOf(c), call[c].values.messages)
                     /\ call[c].result = ProcessMessages(call[c].values.messages))
    /\ [][\A s \in Sessions :
            (checkpoints'[s] # checkpoints[s] \/ writes'[s] # writes[s]) =>
                /\ Stepping = { c \in DOMAIN call : SessionOf(c) = s }
                /\ \A t \in Sessions \ {s} :
                      /\ checkpoints'[t] = checkpoints[t]
                      /\ writes'[t] = writes[t]]_vars

\* Turns on the two sessions are in their runs at the same time, one in its
\* tool step and one at its chat step, each with checkpoints of its own.
C21_Witness ==
    /\ graph = "with_cp"
    /\ call["c1"].pc = "tool_call" /\ call["c2"].pc = "chat"
    /\ call["c2"].rounds = 1
    /\ checkpoints["s1"] # <<>> /\ checkpoints["s2"] # <<>>
    /\ Latest("s1").messages # Latest("s2").messages


\* Caller c's get_response has returned.
Returned(c) == call[c].op = "respond" /\ call[c].status = "returned"

\* `messages` holds the query that caller c submitted.
HoldsQueryOf(c, messages) ==
    \E i \in 1..Len(messages) :
        /\ messages[i].type = "human"
        /\ messages[i].content = Last(InputOf(c)).content

\* The run of one of the callers started from the final state of the other.
OneAfterTheOther(c, d) ==
    \/ IsPrefix(call[c].values.messages, call[d].values.messages)
    \/ IsPrefix(call[d].values.messages, call[c].values.messages)

\* C22: a step of a turn saves the state that its own run holds with what
\* the step adds, whatever another turn on the session has saved meanwhile
\* (a chat step adds one message to the run's own sequence); so once two
\* turns on one stored session have both returned, the latest checkpoint is
\* the final state of one of them, and unless one run started from the final
\* state of the other it lacks messages that the other turn submitted.
C22_LastWriteWins ==
    /\ [](\A c, d \in DOMAIN call :
            (c # d /\ Returned(c) /\ Returned(d) /\ graph = "with_cp") =>
               /\ Latest(SharedSession).messages
                     \in {call[c].values.messages, call[d].values.messages}
               /\ ~OneAfterTheOther(c, d) =>
                     Len(Latest(SharedSession).messages)
                        < Len(submitted[SharedSession]))
    /\ [][\A c \in DOMAIN call :
            (call'[c] # call[c] /\ HasState(c) /\ graph = "with_cp"
               /\ checkpoints'[SharedSession] # checkpoints[SharedSession]) =>
                  /\ Latest(SharedSession)'.messages = call'[c].values.messages
                  /\ IsPrefix(call[c].values.messages,
                              call'[c].values.messages)
                  /\ call[c].pc = "chat" =>
                        Len(call'[c].values.messages)
                           = Len(call[c].values.messages) + 1]_vars

\* Two get_response calls on one session have both returned with a reply,
\* and the latest checkpoint holds the turn of c2 but neither the query nor
\* the reply of the turn of c1.
C22_Witness ==
    /\ Returned("c1") /\ Returned("c2")
    /\ call["c1"].result # <<>> /\ call["c2"].result # <<>>
    /\ graph = "with_cp"
    /\ Latest(SharedSession).messages = call["c2"].values.messages
    /\ ~HoldsQueryOf("c1", Latest(SharedSession).messages)
    /\ Len(Latest(SharedSession).messages) < Len(submitted[SharedSession])


\* C23: a clear_chat_history(s) that returns has left no checkpoint record
\* and no write record under s, having counted all those that were there;
\* get_chat_history(s) called next returns the empty list; and the steps of
\* a clear change no checkpoint record and no write record of another
\* session.
C23_ClearRemovesOnlyItsSession ==
    /\ [](\A c \in Callers, s \in Sessions :
            /\ (Completed(c, "clear", s) /\ call[c].status = "returned") =>
                  /\ checkpoints[s] = <<>>
                  /\ writes[s] = <<>>
            /\ (Completed(c, "history", s) /\ prev.op = "clear"
                  /\ prev.session = s /\ prev.status = "returned") =>
                  /\ call[c].status = "returned"
                  /\ call[c].result = <<>>)
    /\ [][\A c \in Callers :
            (call[c].op = "clear" /\ call[c].status = "running") =>
               LET s == call[c].session
               IN /\ \A t \in Sessions \ {s} :
                        /\ checkpoints'[t] = checkpoints[t]
                        /\ writes'[t] = writes[t]
                  /\ call[c].pc = "delete_checkpoints" =>
                        /\ checkpoints'[s] = <<>>
                        /\ call'[c].deleted[1] = Len(checkpoints[s])
                  /\ call[c].pc = "delete_writes" =>
                        /\ writes'[s] = <<>>
                        /\ call'[c].deleted[2] = Len(writes[s])]_vars

\* A clear that deleted checkpoint and write records of a session returned,
\* and the get_chat_history of that session called next returned [].
C23_Witness ==
    \E c \in Callers, s \in Sessions :
        /\ Completed(c, "history", s)
        /\ call[c].status = "returned" /\ call[c].result = <<>>
        /\ prev.op = "clear" /\ prev.session = s /\ prev.status = "returned"
        /\ prev.deleted[1] > 0 /\ prev.deleted[2] > 0


\* The agent runs in production with the checkpoint store unreachable.
Degraded == env = "production" /\ ~storeUp

\* The graph run of caller c's turn, single-shot or streamed, has applied
\* its input.
TurnHasState(c) ==
    /\ IsTurn(call[c].op)
    /\ call[c].pc \notin {"graph", "memory", "invoke"}
    /\ call[c].values.messages # <<>>

\* In degraded mode nothing is stored and every turn works on a sequence
\* that starts with its own input.
EphemeralState ==
    Degraded =>
       /\ \A s \in Sessions : checkpoints[s] = <<>> /\ writes[s] = <<>>
       /\ \A c \in Callers :
             TurnHasState(c) =>
                /\ graph = "no_cp"
                /\ IsPrefix(DumpMessages(call[c].input), call[c].values.messages)
                /\ \A i \in 1..Len(call[c].values.messages) :
                      i > Len(call[c].input) =>
                         call[c].values.messages[i].type \in {"ai", "tool"}

\* C24: in production with the checkpoint store unreachable a turn writes no
\* checkpoint, every turn starts from its own input alone, and a turn in
\* either response mode completes: it raises only if the model or a tool
\* fails.
C24_EphemeralButCompletes ==
    /\ EphemeralState
    /\ Degraded =>
          \A c \in Callers :
             (IsTurn(call[c].op) /\ call[c].status = "raised") =>
                call[c].error \in {"llm", "unknown_tool", "tool_error"}

\* In degraded mode a streamed turn yielded its answer and then raised at
\* the read-back of the state; no memory update was scheduled.
C24_Witness ==
    \E c \in Callers :
        /\ Degraded
        /\ call[c].op = "stream" /\ call[c].status = "raised"
        /\ call[c].error = "no_checkpointer"
        /\ call[c].yielded # <<>>
        /\ Last(call[c].values.messages).tool_calls = NoCalls
        /\ tasks = <<>>


\* The state that caller c's operation formats.
SourceOf(c) ==
    IF call[c].op = "respond" THEN call[c].values.messages
    ELSE Latest(call[c].session).messages

\* The text a message's content comes out as.
Rendered(m) == PyStr(FormatContent(m.content))

\* The positions of `messages` that satisfy Shown, and the j-th of them.
Positions(messages, Shown(_)) ==
    { i \in 1..Len(messages) : Shown(messages[i]) }

NthPosition(positions, j) ==
    CHOOSE i \in positions : Cardinality({ k \in positions : k <= i }) = j

\* `result` is, in order, one {role, content} element for each message of
\* `messages` that satisfies Shown, with its role and its rendered content.
IsAssemblyOf(result, messages, Shown(_)) ==
    LET positions == Positions(messages, Shown)
    IN /\ Len(result) = Cardinality(positions)
       /\ \A j \in 1..Len(result) :
             LET m == messages[NthPosition(positions, j)]
             IN result[j] = Message(OpenAIRole(m.type), Rendered(m))

FromUserOrAssistant(m) == m.type \in {"human", "ai"}

FromUserOrAssistantNotEmpty(m) ==
    m.type \in {"human", "ai"} /\ Rendered(m) # ""

\* The operation of caller c has returned the assembled messages.
Assembled(c) == call[c].pc = "idle" /\ call[c].status = "returned"

\* A message sequence whose contents are all strings, as held in the graph
\* state of a turn.
AsGraphMessages(messages) ==
    [i \in 1..Len(messages) |->
        Msg(messages[i].type, messages[i].content.text, NoCalls, "", "")]

\* C25 as stated: the assembler returns exactly the messages of role user
\* or assistant, in their order, each with its content as text.
C25_AllUserAndAssistant ==
    \A c \in DOMAIN call :
        Assembled(c) =>
            IsAssemblyOf(call[c].result, SourceOf(c), FromUserOrAssistant)

\* C25: the assembler returns, in their order, exactly the user and
\* assistant messages whose content is not empty, each with its content as
\* one string (text blocks joined by newlines, any other block list as its
\* str()), and never a system or tool message; on string contents this is
\* the assembly used by the turns; get_response and get_chat_history give the
\* same list for the same state.
C25_UserAndAssistantWithContent ==
    /\ \A c \in DOMAIN call :
          Assembled(c) =>
             /\ IsAssemblyOf(call[c].result, SourceOf(c),
                             FromUserOrAssistantNotEmpty)
             /\ \A j \in 1..Len(call[c].result) :
                   /\ call[c].result[j].role \in {"user", "assistant"}
                   /\ call[c].result[j].content # ""
             /\ (\A i \in 1..Len(SourceOf(c)) :
                    SourceOf(c)[i].content.kind = "str") =>
                   call[c].result = ProcessMessages(AsGraphMessages(SourceOf(c)))
    /\ (Assembled("c1") /\ Assembled("c2")) =>
          call["c1"].result = call["c2"].result

\* Both operations have formatted a state of an assistant message with empty
\* content followed by a user message made of two text blocks: the first is
\* left out, the second comes out with its blocks joined.
C25_Witness ==
    /\ Assembled("c1") /\ Assembled("c2")
    /\ Len(SourceOf("c1")) = 2
    /\ SourceOf("c1")[1] = [type |-> "ai", content |-> Text("")]
    /\ SourceOf("c1")[2].content.kind = "blocks"
    /\ call["c1"].result = << Message("user", "a\nb") >>
    /\ call["c2"].result = call["c1"].result


\* Sequence p is q with some elements left out.
RECURSIVE IsSubsequence(_, _)
IsSubsequence(p, q) ==
    IF p = <<>> THEN TRUE
    ELSE IF q = <<>> THEN FALSE
    ELSE IF Head(p) = Head(q) THEN IsSubsequence(Tail(p), Tail(q))
    ELSE IsSubsequence(p, Tail(q))

\* The fragments caller c's stream yielded for the final answer.
FinalYielded(c) ==
    SelectSeq(call[c].yielded, LAMBDA item : item.origin = "final")

\* C26: a token whose processing fails is skipped and nothing else changes:
\* the loop stays in the stream with the following items, in order, and the
\* turn neither raises nor returns at that step; a streamed turn raises only
\* when the model, a tool or the read-back of the state fails; and a streamed
\* turn that returns has yielded the fragments of its final answer in order,
\* less the skipped ones, and has scheduled the memory update with the state
\* read back.
C26_TokenFailureSkipped ==
    /\ [](\A c \in Callers :
            /\ (call[c].op = "stream" /\ call[c].status = "raised") =>
                  call[c].error \in {"checkpointer", "llm", "unknown_tool",
                                     "tool_error", "no_checkpointer"}
            /\ (call[c].op = "stream" /\ call[c].status = "returned") =>
                  /\ IsSubsequence(FinalYielded(c),
                        ChunkItems(Last(call[c].values.messages)))
                  /\ tasks # <<>>
                  /\ Last(tasks).messages =
                        ConvertToOpenAIMessages(Latest(call[c].session).messages)
                  /\ Latest(call[c].session).messages = call[c].values.messages)
    /\ [][\A c \in Callers :
            (call[c].op = "stream" /\ call[c].pc = "emit"
               /\ call[c].pending # <<>> /\ call'[c] # call[c]
               /\ call'[c].error # "llm") =>
                  /\ call'[c].pc = "emit"
                  /\ call'[c].status = "running"
                  /\ call'[c].pending = Tail(call[c].pending)
                  /\ call'[c].yielded \in
                        {call[c].yielded,
                         Append(call[c].yielded, Head(call[c].pending))}
                  /\ call'[c].values = call[c].values
                  /\ tasks' = tasks /\ checkpoints' = checkpoints]_vars

\* A streamed turn returned although the first token of its answer failed:
\* "s" was yielded, "an" was not, and the memory update is scheduled.
C26_Witness ==
    \E c \in Callers :
        /\ call[c].op = "stream" /\ call[c].status = "returned"
        /\ Last(call[c].values.messages).content = "ans"
        /\ FinalYielded(c) = << [text |-> "s", origin |-> "final"] >>
        /\ tasks # <<>>
        /\ Last(tasks).state = "scheduled"


\* The request in progress carries a bearer token that verify_jwt accepts
\* and whose payload names a user.
NamesUser(header) ==
    /\ IsBearer(header)
    /\ ~VerifyJwt(header[2]).raised
    /\ VerifyJwt(header[2]).payload.sub \notin {"", "none"}

\* C27: between requests the logging context is empty; the handler of a
\* request finds in it the user of that request's own token and nothing
\* else, and no user at all when the token is missing, not a bearer token or
\* refused by verify_jwt; the context is cleared when the request comes in
\* and when it is over, whether the handler returned or raised; and the
\* handler is called for every request, which fails only if the handler
\* raised.
C27_NoContextLeak ==
    /\ [](/\ request.pc = "idle" => context = EmptyContext
          /\ request.pc = "token" => context = EmptyContext
          /\ request.pc \in {"call_next", "finally"} =>
                /\ context.user_id = request.user_id
                /\ request.user_id # "none" <=> NamesUser(request.header)
                /\ NamesUser(request.header) =>
                      request.user_id = VerifyJwt(request.header[2]).payload.sub
          /\ request.pc = "call_next" => context.session_id = "none"
          /\ request.pc = "finally" =>
                request.seen = [user_id |-> request.user_id,
                                session_id |-> "none"]
          /\ request.status = "raised" => request.outcome = "raises")
    /\ [][/\ request.pc = "token" => request'.pc = "call_next"
          /\ request.pc = "call_next" => request'.pc = "finally"
          /\ request.pc = "finally" =>
                /\ context' = EmptyContext
                /\ request'.status =
                      IF request.outcome = "raises" THEN "raised"
                      ELSE "returned"]_vars

\* After a request of user u1, the handler of a request with a forged token
\* was called and found an empty context; Sentry still holds u1.
C27_Witness ==
    /\ request.n = 2
    /\ request.pc = "finally"
    /\ request.header = << "Bearer", "forged" >>
    /\ request.seen = EmptyContext
    /\ sentryUser.id = "u1"

====
